---------------------------- MODULE Spec2Model ----------------------------
(***************************************************************************)
(* A model of RepoLLM's selection-and-context engine: the in-memory TTL    *)
(* cache (lib/cache.ts), the file selection pipeline (analyzeRepoFiles,    *)
(* analyzeFileSelection, enhancedFileSelection) and the pure functions     *)
(* they are built from.  Strings are sequences of one-character strings,   *)
(* so that lower-casing, trimming, substring tests and key concatenation   *)
(* are computed as the code computes them.                                 *)
(***************************************************************************)
EXTENDS Integers, Sequences, FiniteSets, TLC

VARIABLES
    cache,      \* cache.ts:7   the module-level Map: key -> [data, expires]
    origin,     \* history: for each key of the Map, the call that last set it
    now,        \* Date.now(), in milliseconds since the start of the run
    ticks,      \* number of clock advances so far (bounded by MaxTicks)
    returned,   \* the cache read made in the last step and what it returned
    selQuestion,    \* the question given to the selection functions
    selTree,        \* the repository's paths given to the selection functions
    applied,        \* the selection function applied last
    selType,        \* what classifyQuestion returned
    selScored,      \* what selectFilesWithScoring returned
    selected,       \* the selection returned
    pc,         \* per execution: where the call of the pipeline stands
    call,       \* per execution: the function entered and its arguments
    result,     \* per execution: the selection returned to the caller
    via,        \* per execution: the path the selection was produced on
    used,       \* per execution: the components used so far, in order
    selInput,   \* the selection given to expandWithNeighbors
    fileResults,    \* fetchRepoFiles: the files read, each a path and its content
    maxTokens,  \* fetchRepoFiles: the token budget of the context
    context,    \* the context document, a string
    tokenCount, \* fetchRepoFiles: currentTokenCount when the loop ends
    ctxOp,      \* the context function applied last
    contextIndex,   \* what buildContextIndex returned
    answer,     \* the answer given to validateLineNumbers
    validation, \* what validateLineNumbers returned
    rawContext, \* the document given to normalizeContext or answerWithContext
    questionTokens, \* answerWithContext: countTokens(sanitizedQuestion)
    historyTokens,  \* answerWithContext: countTokens(historyText)
    reads,      \* getLocalFileContent: per file asked for, what the read gave
    filesProcessed  \* fetchRepoFiles: the filesProcessed it returned

cacheVars == <<cache, origin, now, ticks, returned>>
selVars == <<selQuestion, selTree, applied, selType, selScored, selected>>
runVars == <<pc, call, result, via, used>>
ctxVars == <<selInput, fileResults, maxTokens, context, tokenCount, ctxOp,
             contextIndex, answer, validation, rawContext, questionTokens,
             historyTokens, reads, filesProcessed>>
vars == <<cacheVars, selVars, runVars, ctxVars>>

(***************************************************************************)
(* Strings                                                                 *)
(***************************************************************************)
UpperChars == <<"A","B","C","D","E","F","G","H","I","J","K","L","M",
                "N","O","P","Q","R","S","T","U","V","W","X","Y","Z">>
LowerChars == <<"a","b","c","d","e","f","g","h","i","j","k","l","m",
                "n","o","p","q","r","s","t","u","v","w","x","y","z">>
DigitChars == <<"0","1","2","3","4","5","6","7","8","9">>

SeqRange(s) == {s[i] : i \in 1..Len(s)}

\* String.prototype.toLowerCase, one character
UpperToLower ==
    [c \in SeqRange(UpperChars) |->
        LowerChars[CHOOSE i \in 1..26 : UpperChars[i] = c]]
LowerChar(c) == IF c \in DOMAIN UpperToLower THEN UpperToLower[c] ELSE c

\* String.prototype.toLowerCase
ToLowerCase(s) == [i \in 1..Len(s) |-> LowerChar(s[i])]

\* the white space String.prototype.trim and the regex class \s remove
IsSpace(c) == c \in {" ", "\t", "\n", "\r"}

SetMin(S) == CHOOSE x \in S : \A y \in S : x <= y
SetMax(S) == CHOOSE x \in S : \A y \in S : x >= y

\* the positions of s that lie in S, in increasing order
PositionsIn(s, S) == SelectSeq([i \in 1..Len(s) |-> i], LAMBDA i : i \in S)

\* the elements of s at the positions S, in order
AtPositions(s, S) ==
    LET at == PositionsIn(s, S)
    IN  [k \in 1..Len(at) |-> s[at[k]]]

\* String.prototype.trim
Trim(s) ==
    LET keep == PositionsIn(s, {i \in 1..Len(s) : ~IsSpace(s[i])})
    IN  IF keep = <<>> THEN <<>> ELSE SubSeq(s, keep[1], keep[Len(keep)])

\* String.prototype.includes
Includes(s, sub) ==
    \E i \in 0..(Len(s) - Len(sub)) : SubSeq(s, i + 1, i + Len(sub)) = sub

\* String.prototype.startsWith / endsWith
StartsWith(s, pre) == Len(pre) <= Len(s) /\ SubSeq(s, 1, Len(pre)) = pre
EndsWith(s, suf) ==
    Len(suf) <= Len(s) /\ SubSeq(s, Len(s) - Len(suf) + 1, Len(s)) = suf

(***************************************************************************)
(* lib/cache.ts                                                            *)
(***************************************************************************)
TTL_FILE == 3600000
TTL_REPO == 900000
TTL_PROFILE == 1800000
TTL_QUERY == 86400000

\* bound of the cache model: the number of clock advances
MaxTicks == 2

\* what a lookup hands back: `entry ? entry.data : null`
NoEntry == [found |-> FALSE, data |-> <<>>]
Found(d) == [found |-> TRUE, data |-> d]

\* `${owner}/${repo}`
RepoNs(owner, repo) == owner \o <<"/">> \o repo

\* cache.ts:34,49  `file:${owner}/${repo}:${path}:${sha}`
FileKeyNoSha(owner, repo, path, sha) ==
    <<"f","i","l","e",":">> \o RepoNs(owner, repo) \o <<":">> \o path
FileKey(owner, repo, path, sha) ==
    <<"f","i","l","e",":">> \o RepoNs(owner, repo) \o <<":">> \o path
        \o <<":">> \o sha

\* cache.ts:63,75  `repo:${owner}/${repo}`
RepoKey(owner, repo) == <<"r","e","p","o",":">> \o RepoNs(owner, repo)

\* cache.ts:88,97  `profile:${username}`
ProfileKey(username) == <<"p","r","o","f","i","l","e",":">> \o username

\* cache.ts:111,121  `tree:${owner}/${repo}:${branch}`
TreeKey(owner, repo, branch) ==
    <<"t","r","e","e",":">> \o RepoNs(owner, repo) \o <<":">> \o branch

\* cache.ts:137-138,149-150  query.toLowerCase().trim() under the repository
QueryKeyRaw(owner, repo, query) ==
    <<"q","u","e","r","y",":">> \o RepoNs(owner, repo) \o <<":">> \o query
QueryKey(owner, repo, query) ==
    <<"q","u","e","r","y",":">> \o RepoNs(owner, repo) \o <<":">>
        \o Trim(ToLowerCase(query))

\* cache.ts:15-22  delete every entry with expires < now
cleanExpiredNone(c, t) == c
\* the broken sweep: it stops after the first entry it deletes
cleanExpiredFirst(c, t) ==
    LET dead == {x \in DOMAIN c : c[x].expires < t}
    IN  IF dead = {} THEN c
        ELSE [k \in (DOMAIN c) \ {CHOOSE x \in dead : TRUE} |-> c[k]]

cleanExpired(c, t) ==
    [k \in {x \in DOMAIN c : ~(c[x].expires < t)} |-> c[k]]

\* a set that leaves the entry of a key already in the Map as it is
CacheSetKeepFirst(c, k, d, e) ==
    [x \in (DOMAIN c) \cup {k} |->
        IF x = k /\ k \notin DOMAIN c THEN [data |-> d, expires |-> e]
        ELSE c[x]]

\* Map.prototype.set
CacheSet(c, k, d, e) ==
    [x \in (DOMAIN c) \cup {k} |->
        IF x = k THEN [data |-> d, expires |-> e] ELSE c[x]]

\* cache.get(key), then `entry ? entry.data : null`
CacheGetAbsent(c, k) == NoEntry
CacheGet(c, k) == IF k \in DOMAIN c THEN Found(c[k].data) ELSE NoEntry

\* cache.ts:158-165  delete every key that includes `${owner}/${repo}`
ClearedCache(c, owner, repo) ==
    [k \in {x \in DOMAIN c : ~Includes(x, RepoNs(owner, repo))} |-> c[k]]

(***************************************************************************)
(* The cache operations, as steps                                          *)
(***************************************************************************)
\* a call that returns nothing (Promise<void>), or no call at all
Void == [op |-> "void", args |-> <<>>, found |-> FALSE, data |-> <<>>,
         keys |-> 0, evicted |-> {}]

\* a read's record: its arguments, what it returned, and the keys its
\* cleanExpired() deleted on the way
ReadRecord(op, args, ret) ==
    [op |-> op, args |-> args, found |-> ret.found, data |-> ret.data,
     keys |-> 0, evicted |-> (DOMAIN cache) \ (DOMAIN cache')]

\* history kept beside the Map: which call wrote the entry of key k
Wrote(k, op, args) ==
    origin' = [x \in (DOMAIN origin) \cup {k} |->
                  IF x = k THEN [op |-> op, args |-> args, at |-> now]
                  ELSE origin[x]]
Forgot == origin' = [x \in DOMAIN cache' |-> origin[x]]

\* cache.ts:27-36
cacheFile(owner, repo, path, sha, content) ==
    /\ cache' = CacheSet(cache, FileKey(owner, repo, path, sha), content,
                         now + TTL_FILE)
    /\ Wrote(FileKey(owner, repo, path, sha), "cacheFile", <<owner, repo, path, sha, content>>)
    /\ returned' = Void
    /\ UNCHANGED <<now, ticks, selVars, runVars, ctxVars>>

\* cache.ts:42-52
getCachedFile(owner, repo, path, sha) ==
    /\ cache' = cleanExpired(cache, now)
    /\ Forgot
    /\ returned' = ReadRecord("getCachedFile", <<owner, repo, path, sha>>,
                       CacheGet(cache', FileKey(owner, repo, path, sha)))
    /\ UNCHANGED <<now, ticks, selVars, runVars, ctxVars>>

\* cache.ts:57-65
cacheRepoMetadata(owner, repo, data, ttl) ==
    /\ cache' = CacheSet(cache, RepoKey(owner, repo), data, now + ttl)
    /\ Wrote(RepoKey(owner, repo), "cacheRepoMetadata", <<owner, repo, data>>)
    /\ returned' = Void
    /\ UNCHANGED <<now, ticks, selVars, runVars, ctxVars>>

\* cache.ts:70-78
getCachedRepoMetadata(owner, repo) ==
    /\ cache' = cleanExpired(cache, now)
    /\ Forgot
    /\ returned' = ReadRecord("getCachedRepoMetadata", <<owner, repo>>,
                       CacheGet(cache', RepoKey(owner, repo)))
    /\ UNCHANGED <<now, ticks, selVars, runVars, ctxVars>>

\* cache.ts:83-90
cacheProfileData(username, data, ttl) ==
    /\ cache' = CacheSet(cache, ProfileKey(username), data, now + ttl)
    /\ Wrote(ProfileKey(username), "cacheProfileData", <<username, data>>)
    /\ returned' = Void
    /\ UNCHANGED <<now, ticks, selVars, runVars, ctxVars>>

\* cache.ts:95-100
getCachedProfileData(username) ==
    /\ cache' = cleanExpired(cache, now)
    /\ Forgot
    /\ returned' = ReadRecord("getCachedProfileData", <<username>>,
                       CacheGet(cache', ProfileKey(username)))
    /\ UNCHANGED <<now, ticks, selVars, runVars, ctxVars>>

\* cache.ts:105-113
cacheFileTree(owner, repo, branch, tree) ==
    /\ cache' = CacheSet(cache, TreeKey(owner, repo, branch), tree,
                         now + TTL_REPO)
    /\ Wrote(TreeKey(owner, repo, branch), "cacheFileTree", <<owner, repo, branch, tree>>)
    /\ returned' = Void
    /\ UNCHANGED <<now, ticks, selVars, runVars, ctxVars>>

\* cache.ts:115-124
getCachedFileTree(owner, repo, branch) ==
    /\ cache' = cleanExpired(cache, now)
    /\ Forgot
    /\ returned' = ReadRecord("getCachedFileTree", <<owner, repo, branch>>,
                       CacheGet(cache', TreeKey(owner, repo, branch)))
    /\ UNCHANGED <<now, ticks, selVars, runVars, ctxVars>>

\* cache.ts:130-141
cacheQuerySelection(owner, repo, query, files) ==
    /\ cache' = CacheSet(cache, QueryKey(owner, repo, query), files,
                         now + TTL_QUERY)
    /\ Wrote(QueryKey(owner, repo, query), "cacheQuerySelection", <<owner, repo, query, files>>)
    /\ returned' = Void
    /\ UNCHANGED <<now, ticks, selVars, runVars, ctxVars>>

\* cache.ts:143-153
getCachedQuerySelection(owner, repo, query) ==
    /\ cache' = cleanExpired(cache, now)
    /\ Forgot
    /\ returned' = ReadRecord("getCachedQuerySelection", <<owner, repo, query>>,
                       CacheGet(cache', QueryKey(owner, repo, query)))
    /\ UNCHANGED <<now, ticks, selVars, runVars, ctxVars>>

\* cache.ts:158-165
clearRepoCache(owner, repo) ==
    /\ cache' = ClearedCache(cache, owner, repo)
    /\ Forgot
    /\ returned' = [Void EXCEPT !.op = "clearRepoCache",
                                !.args = <<owner, repo>>]
    /\ UNCHANGED <<now, ticks, selVars, runVars, ctxVars>>

\* cache.ts:170-176
getCacheStats ==
    /\ cache' = cleanExpired(cache, now)
    /\ Forgot
    /\ returned' = [op |-> "getCacheStats", args |-> <<>>, found |-> TRUE,
                    data |-> <<>>, keys |-> Cardinality(DOMAIN cache'),
                    evicted |-> (DOMAIN cache) \ (DOMAIN cache')]
    /\ UNCHANGED <<now, ticks, selVars, runVars, ctxVars>>

\* time passes between two calls: Date.now() moves on by d milliseconds
Tick(d) ==
    /\ ticks < MaxTicks
    /\ now' = now + d
    /\ ticks' = ticks + 1
    /\ returned' = Void
    /\ UNCHANGED <<cache, origin, selVars, runVars, ctxVars>>

\* no selection function is running
SelectIdle ==
    /\ selQuestion = <<>>
    /\ selTree = <<>>
    /\ applied = "none"
    /\ selType = [type |-> "none", keywords |-> <<>>]
    /\ selScored = <<>>
    /\ selected = <<>>

\* the executions of the selection pipeline (concurrent requests)
Procs == {1, 2}

NoCall == [fn |-> "none", query |-> <<>>, tree |-> <<>>, owner |-> <<>>,
           repo |-> <<>>]

\* no request is being served
RunIdle ==
    /\ pc = [p \in Procs |-> "idle"]
    /\ call = [p \in Procs |-> NoCall]
    /\ result = [p \in Procs |-> <<>>]
    /\ via = [p \in Procs |-> "none"]
    /\ used = [p \in Procs |-> <<>>]

NoValidation == [valid |-> TRUE, errors |-> <<>>]

\* no context function has run
ContextIdle ==
    /\ selInput = <<>>
    /\ fileResults = <<>>
    /\ maxTokens = 0
    /\ context = <<>>
    /\ tokenCount = 0
    /\ ctxOp = "none"
    /\ contextIndex = <<>>
    /\ answer = <<>>
    /\ rawContext = <<>>
    /\ questionTokens = 0
    /\ historyTokens = 0
    /\ reads = <<>>
    /\ filesProcessed = 0
    /\ validation = NoValidation

\* cache.ts:7  const cache = new Map()
CacheEmpty ==
    /\ cache = <<>>
    /\ origin = <<>>
    /\ now = 0
    /\ ticks = 0
    /\ returned = Void

InitCache == CacheEmpty /\ SelectIdle /\ RunIdle /\ ContextIdle

(***************************************************************************)
(* SpecCache: every tier of the cache, one key each                        *)
(***************************************************************************)
Owner1 == <<"o">>
Repo1 == <<"r">>
Repo2 == <<"r","2">>
PathA == <<"a",".","t","s">>
PathB == <<"d","/","b",".","t","s">>
Sha1 == <<"e","1">>
Sha2 == <<"e","2">>
Content1 == <<"c","1">>
Content2 == <<"c","2">>
User1 == <<"u">>
BranchMain == <<"m","a","i","n">>
Meta1 == <<"m","e","t","a">>
\* the selections stored for a query
FileLists == {<<PathA>>, <<PathA, PathB>>}
\* the raw queries are "q", " Q " (the same query after
\* toLowerCase().trim()) and "p"

NextCache ==
    \/ cacheFile(Owner1, Repo1, PathA, Sha1, Content1)
    \/ getCachedFile(Owner1, Repo1, PathA, Sha1)
    \/ cacheRepoMetadata(Owner1, Repo1, Meta1, TTL_REPO)
    \/ getCachedRepoMetadata(Owner1, Repo1)
    \/ cacheProfileData(User1, Meta1, TTL_PROFILE)
    \/ getCachedProfileData(User1)
    \/ cacheFileTree(Owner1, Repo1, BranchMain, <<PathA>>)
    \/ getCachedFileTree(Owner1, Repo1, BranchMain)
    \/ cacheQuerySelection(Owner1, Repo2, <<"q">>, <<PathA>>)
    \/ getCachedQuerySelection(Owner1, Repo2, <<"q">>)
    \/ \E r \in {Repo1, Repo2} : clearRepoCache(Owner1, r)
    \/ getCacheStats
    \/ \E d \in {1, TTL_REPO, TTL_QUERY} : Tick(d)

SpecCache ==
    InitCache /\ [][NextCache]_vars

(***************************************************************************)
(* SpecQueryCache: the selection cache, several queries and repositories   *)
(***************************************************************************)
QueryArgs == {<<Repo1, <<"q">> >>, <<Repo1, <<" ","Q"," ">> >>,
              <<Repo1, <<"p">> >>, <<Repo2, <<"q">> >>}

NextQueryCache ==
    \/ \E a \in QueryArgs, f \in FileLists :
          cacheQuerySelection(Owner1, a[1], a[2], f)
    \/ \E a \in QueryArgs : getCachedQuerySelection(Owner1, a[1], a[2])
    \/ \E r \in {Repo1, Repo2} : clearRepoCache(Owner1, r)
    \/ \E d \in {1, TTL_QUERY} : Tick(d)

SpecQueryCache ==
    InitCache /\ [][NextQueryCache]_vars

(***************************************************************************)
(* SpecFileCache: the content cache, several paths and hashes              *)
(***************************************************************************)
FileArgs == {<<PathA, Sha1>>, <<PathA, Sha2>>, <<PathB, Sha1>>}

NextFileCache ==
    \/ \E a \in FileArgs, c \in {Content1, Content2} :
          cacheFile(Owner1, Repo1, a[1], a[2], c)
    \/ \E a \in FileArgs : getCachedFile(Owner1, Repo1, a[1], a[2])
    \/ cacheFileTree(Owner1, Repo1, BranchMain, <<PathA>>)
    \/ getCachedFileTree(Owner1, Repo1, BranchMain)
    \/ \E d \in {1, TTL_FILE} : Tick(d)

SpecFileCache ==
    InitCache /\ [][NextFileCache]_vars

(***************************************************************************)
(* Properties of the cache                                                 *)
(***************************************************************************)
Hours1 == 60 * 60 * 1000
Hours24 == 24 * Hours1

\* the lower-cased, trimmed form of a query
NormalForm(q) == Trim(ToLowerCase(q))

\* the entry of key k was written by the store that read rd looks up: the
\* same tier and the same identifying arguments
Answers(k, rd) ==
    LET w == origin[k] IN
    CASE rd.op = "getCachedFile" ->
            w.op = "cacheFile" /\ SubSeq(w.args, 1, 4) = rd.args
      [] rd.op = "getCachedRepoMetadata" ->
            w.op = "cacheRepoMetadata" /\ SubSeq(w.args, 1, 2) = rd.args
      [] rd.op = "getCachedProfileData" ->
            w.op = "cacheProfileData" /\ SubSeq(w.args, 1, 1) = rd.args
      [] rd.op = "getCachedFileTree" ->
            w.op = "cacheFileTree" /\ SubSeq(w.args, 1, 3) = rd.args
      [] rd.op = "getCachedQuerySelection" ->
            /\ w.op = "cacheQuerySelection"
            /\ SubSeq(w.args, 1, 2) = SubSeq(rd.args, 1, 2)
            /\ NormalForm(w.args[3]) = NormalForm(rd.args[3])
      [] OTHER -> FALSE

ReadOps == {"getCachedFile", "getCachedRepoMetadata", "getCachedProfileData",
            "getCachedFileTree", "getCachedQuerySelection"}

\* C1: a read at time `now` returns a value only from an entry of the key it
\* looks up whose expiry has not passed (expires >= now); an entry whose
\* expiry has passed, evicted or not, is never returned: the lookup is absent.
C1_ExpiredNeverReturned ==
    [][returned'.op \in ReadOps =>
         /\ returned'.found =>
               \E k \in DOMAIN cache :
                   /\ Answers(k, returned')
                   /\ cache[k].expires >= now
                   /\ cache[k].data = returned'.data
         /\ \A k \in DOMAIN cache :
               (Answers(k, returned') /\ cache[k].expires < now)
                   => ~returned'.found]_vars

\* C1 witness: a lookup of a key whose entry was still in the Map, expired,
\* when the read began, came back absent
C1_Witness ==
    /\ returned.op = "getCachedQuerySelection"
    /\ ~returned.found
    /\ QueryKey(returned.args[1], returned.args[2], returned.args[3])
           \in returned.evicted

\* the selection-cache entries a lookup (owner, repo, q2) is answered from
SameQuery(c, orig, rd) ==
    {k \in DOMAIN c : orig[k].op = "cacheQuerySelection" /\
        SubSeq(orig[k].args, 1, 2) = SubSeq(rd.args, 1, 2) /\
        NormalForm(orig[k].args[3]) = NormalForm(rd.args[3])}

\* C2: selection-cache round trip.  An entry stored by
\* cacheQuerySelection(owner, repo, q, files) at t0 holds files and expires at
\* t0 + 24h; it stays as it is until a store to its key, a clearRepoCache or
\* its expiry; and getCachedQuerySelection(owner, repo, q2) before then
\* returns exactly files when q2 has the normal form of q, and is answered
\* from no entry of another normal form or repository.
C2_Step ==
    /\ \A k \in DOMAIN cache' :
          origin'[k].op = "cacheQuerySelection" =>
              /\ cache'[k].data = origin'[k].args[4]
              /\ cache'[k].expires = origin'[k].at + Hours24
    /\ \A k \in DOMAIN cache :
          \/ k \in DOMAIN cache' /\ cache'[k] = cache[k]
          \/ k \in DOMAIN cache' /\ origin'[k] # origin[k]
          \/ returned'.op = "clearRepoCache"
          \/ cache[k].expires < now
    /\ returned'.op = "getCachedQuerySelection" =>
          /\ \A k \in SameQuery(cache, origin, returned') :
                now < origin[k].at + Hours24 =>
                    (returned'.found /\ returned'.data = origin[k].args[4])
          /\ returned'.found =>
                \E k \in SameQuery(cache, origin, returned') :
                    returned'.data = origin[k].args[4]
C2_RoundTrip == [][C2_Step]_vars

\* C2 witness: after time has passed, a lookup spelled differently from the
\* stored query (other case, surrounding blanks) returned the stored list
C2_Witness ==
    /\ returned.op = "getCachedQuerySelection"
    /\ returned.found
    /\ \E k \in DOMAIN cache :
          /\ Answers(k, returned)
          /\ origin[k].args[3] # returned.args[3]
          /\ origin[k].at < now
          /\ returned.data = origin[k].args[4]

\* C3: getCachedFile(owner, repo, path, sha) returns content only if a
\* cacheFile call with the same owner, repo, path and sha stored exactly that
\* content at most one hour before; content stored under another hash of the
\* same path is not returned.
C3_HashInvalidation ==
    (returned.op = "getCachedFile" /\ returned.found) =>
        \E k \in DOMAIN cache :
            /\ origin[k].op = "cacheFile"
            /\ SubSeq(origin[k].args, 1, 4) = returned.args
            /\ origin[k].args[5] = returned.data
            /\ now <= origin[k].at + Hours1

\* C3 witness: the lookup of a path under one hash is absent while content
\* of the same path stored under another hash is in the cache
C3_Witness ==
    /\ returned.op = "getCachedFile"
    /\ ~returned.found
    /\ \E k \in DOMAIN cache :
          /\ origin[k].op = "cacheFile"
          /\ SubSeq(origin[k].args, 1, 3) = SubSeq(returned.args, 1, 3)
          /\ origin[k].args[4] # returned.args[4]

(***************************************************************************)
(* lib/file-selection-enhanced.ts: classification and keywords             *)
(***************************************************************************)
\* Array.prototype.includes on a list
InSeq(x, seq) == \E i \in 1..Len(seq) : seq[i] = x

\* the first n elements: Array.prototype.slice(0, n)
Take(seq, n) == SubSeq(seq, 1, IF Len(seq) < n THEN Len(seq) ELSE n)

\* path.split('/').pop(): the text after the last '/'
BaseName(path) ==
    LET slashes == {i \in 1..Len(path) : path[i] = "/"}
    IN  IF slashes = {} THEN path
        ELSE SubSeq(path, SetMax(slashes) + 1, Len(path))

\* the regex a.*b for literal alternatives: some a, then on the same line,
\* at or after its end, some b
MatchThen(s, firsts, seconds) ==
    \E a \in firsts : \E i \in 1..(Len(s) - Len(a) + 1) :
        /\ SubSeq(s, i, i + Len(a) - 1) = a
        /\ \E b \in seconds : \E j \in (i + Len(a))..(Len(s) - Len(b) + 1) :
              /\ SubSeq(s, j, j + Len(b) - 1) = b
              /\ \A m \in (i + Len(a))..(j - 1) : s[m] \notin {"\n", "\r"}

\* the regex (a|b|...) for literal alternatives
MatchAny(s, words) == \E w \in words : Includes(s, w)

\* part_005:22
IsCodeLocation(q) ==
    MatchThen(q, {<<"w","h","e","r","e">>, <<"f","i","n","d">>, <<"l","o",
        "c","a","t","e">>, <<"w","h","i","c","h"," ","f","i","l","e">>,
        <<"w","h","a","t"," ","f","i","l","e">>, <<"s","h","o","w"," ","m",
        "e">>},
                 {<<"f","u","n","c","t","i","o","n">>, <<"c","l","a","s",
                     "s">>, <<"m","e","t","h","o","d">>, <<"c","o","d",
                     "e">>, <<"i","m","p","l","e","m","e","n","t","a","t",
                     "i","o","n">>})
\* part_005:27
IsArchitecture(q) ==
    MatchAny(q, {<<"a","r","c","h","i","t","e","c","t","u","r","e">>, <<"a",
        "r","c","h","i","t","e","c","t","u","r","a","l">>, <<"s","y","s","t",
        "e","m"," ","d","e","s","i","g","n">>, <<"d","e","s","i","g","n"," ",
        "p","a","t","t","e","r","n">>, <<"l","a","y","e","r","s">>, <<"c",
        "o","m","p","o","n","e","n","t","s">>, <<"s","t","r","u","c","t","u",
        "r","e">>})
\* part_005:32
IsFlow(q) ==
    \/ MatchThen(q, {<<"h","o","w">>}, {<<"w","o","r","k">>})
    \/ MatchAny(q, {<<"f","l","o","w">>, <<"p","r","o","c","e","s","s">>,
        <<"s","e","q","u","e","n","c","e">>, <<"p","i","p","e","l","i","n",
        "e">>})
\* part_005:37
IsBugAnalysis(q) ==
    \/ MatchAny(q, {<<"b","u","g">>, <<"e","r","r","o","r">>, <<"i","s","s",
        "u","e">>, <<"p","r","o","b","l","e","m">>, <<"f","i","x">>, <<"b",
        "r","o","k","e","n">>, <<"w","r","o","n","g">>})
    \/ MatchThen(q, {<<"w","h","y">>}, {<<"n","o","t">>, <<"f","a","i","l">>})
\* part_005:42
IsImprovement(q) ==
    MatchAny(q, {<<"i","m","p","r","o","v","e">>, <<"b","e","t","t","e",
        "r">>, <<"o","p","t","i","m","i","z","e">>, <<"r","e","f","a","c",
        "t","o","r">>, <<"e","n","h","a","n","c","e">>, <<"s","u","g","g",
        "e","s","t">>})
\* part_005:47
IsDocumentation(q) ==
    MatchAny(q, {<<"r","e","a","d","m","e">>, <<"d","o","c","u","m","e","n",
        "t">>, <<"d","o","c">>, <<"e","x","p","l","a","i","n">>, <<"d","e",
        "s","c","r","i","b","e">>, <<"w","h","a","t"," ","i","s">>, <<"t",
        "e","l","l"," ","m","e"," ","a","b","o","u","t">>})
\* part_005:52
IsExplanation(q) ==
    MatchAny(q, {<<"e","x","p","l","a","i","n">>, <<"h","o","w">>, <<"w","h",
        "a","t"," ","d","o","e","s">>, <<"w","h","y">>, <<"m","e","a","n",
        "i","n","g">>, <<"p","u","r","p","o","s","e">>})

\* part_005:61
StopWords ==
    {<<"t","h","e">>,
     <<"a">>,
     <<"a","n">>,
     <<"i","s">>,
     <<"a","r","e">>,
     <<"w","a","s">>,
     <<"w","e","r","e">>,
     <<"b","e">>,
     <<"b","e","e","n">>,
     <<"b","e","i","n","g">>,
     <<"h","a","v","e">>,
     <<"h","a","s">>,
     <<"h","a","d">>,
     <<"d","o">>,
     <<"d","o","e","s">>,
     <<"d","i","d">>,
     <<"w","i","l","l">>,
     <<"w","o","u","l","d">>,
     <<"s","h","o","u","l","d">>,
     <<"c","o","u","l","d">>,
     <<"m","a","y">>,
     <<"m","i","g","h","t">>,
     <<"m","u","s","t">>,
     <<"c","a","n">>,
     <<"t","h","i","s">>,
     <<"t","h","a","t">>,
     <<"t","h","e","s","e">>,
     <<"t","h","o","s","e">>,
     <<"i">>,
     <<"y","o","u">>,
     <<"h","e">>,
     <<"s","h","e">>,
     <<"i","t">>,
     <<"w","e">>,
     <<"t","h","e","y">>,
     <<"w","h","a","t">>,
     <<"w","h","i","c","h">>,
     <<"w","h","o">>,
     <<"w","h","e","r","e">>,
     <<"w","h","e","n">>,
     <<"w","h","y">>,
     <<"h","o","w">>,
     <<"i","n">>,
     <<"o","n">>,
     <<"a","t">>,
     <<"t","o">>,
     <<"f","o","r">>,
     <<"o","f">>,
     <<"w","i","t","h">>,
     <<"b","y">>,
     <<"f","r","o","m">>,
     <<"a","b","o","u","t">>,
     <<"i","n","t","o">>,
     <<"t","h","r","o","u","g","h">>,
     <<"d","u","r","i","n","g">>,
     <<"b","e","f","o","r","e">>,
     <<"a","f","t","e","r">>,
     <<"a","b","o","v","e">>,
     <<"b","e","l","o","w">>,
     <<"u","p">>,
     <<"d","o","w","n">>,
     <<"o","u","t">>,
     <<"o","f","f">>,
     <<"o","v","e","r">>,
     <<"u","n","d","e","r">>,
     <<"a","g","a","i","n">>,
     <<"f","u","r","t","h","e","r">>,
     <<"t","h","e","n">>,
     <<"o","n","c","e">>}

\* the regex class \w
IsWordChar(c) ==
    \/ \E i \in 1..26 : c = LowerChars[i] \/ c = UpperChars[i]
    \/ \E i \in 1..10 : c = DigitChars[i]
    \/ c = "_"

\* .replace(/[^\w\s]/g, ' ')
StripPunctuation(s) ==
    [i \in 1..Len(s) |-> IF IsWordChar(s[i]) \/ IsSpace(s[i]) THEN s[i] ELSE " "]

\* .split(/\s+/), without the empty strings it yields at the ends (they are
\* dropped by the length filter that follows)
SplitWhitespace(s) ==
    LET starts == {i \in 1..Len(s) :
                      ~IsSpace(s[i]) /\ (i = 1 \/ IsSpace(s[i - 1]))}
        ends == {i \in 1..Len(s) :
                    ~IsSpace(s[i]) /\ (i = Len(s) \/ IsSpace(s[i + 1]))}
        from == PositionsIn(s, starts)
        to == PositionsIn(s, ends)
    IN  [k \in 1..Len(from) |-> SubSeq(s, from[k], to[k])]

\* [...new Set(words)]: the first occurrence of each element, in order
Dedupe(seq) ==
    AtPositions(seq, {i \in 1..Len(seq) : \A j \in 1..(i - 1) : seq[j] # seq[i]})

MaxKeywords == 10

\* part_005:59-69
extractKeywords(question) ==
    LET words == SplitWhitespace(StripPunctuation(ToLowerCase(question)))
        kept == SelectSeq(words, LAMBDA w : Len(w) > 2 /\ w \notin StopWords)
    IN  Take(Dedupe(kept), MaxKeywords)

\* the broken order: explanation is tested before architecture
QuestionTypeExplanationFirst(question) ==
    LET q == ToLowerCase(question)
    IN  IF IsCodeLocation(q) THEN "code-location"
        ELSE IF IsExplanation(q) THEN "explanation"
        ELSE IF IsArchitecture(q) THEN "architecture"
        ELSE IF IsFlow(q) THEN "flow"
        ELSE IF IsBugAnalysis(q) THEN "bug-analysis"
        ELSE IF IsImprovement(q) THEN "improvement"
        ELSE IF IsDocumentation(q) THEN "documentation"
        ELSE "general"

\* part_005:15-57
QuestionTypeOf(question) ==
    LET q == ToLowerCase(question)
    IN  IF IsCodeLocation(q) THEN "code-location"
        ELSE IF IsArchitecture(q) THEN "architecture"
        ELSE IF IsFlow(q) THEN "flow"
        ELSE IF IsBugAnalysis(q) THEN "bug-analysis"
        ELSE IF IsImprovement(q) THEN "improvement"
        ELSE IF IsDocumentation(q) THEN "documentation"
        ELSE IF IsExplanation(q) THEN "explanation"
        ELSE "general"

classifyQuestion(question) ==
    [type |-> QuestionTypeOf(question), keywords |-> extractKeywords(question)]

(***************************************************************************)
(* lib/file-selection-enhanced.ts: scoring, expansion, selection           *)
(***************************************************************************)
\* a regex /\.(e1|e2|...)$/ on a path
HasExtension(path, exts) == \E e \in exts : EndsWith(path, <<".">> \o e)

CodeExts == {<<"t","s">>, <<"t","s","x">>, <<"j","s">>, <<"j","s","x">>,
    <<"p","y">>, <<"j","a","v","a">>, <<"g","o">>, <<"r","s">>, <<"r","b">>}
NeighborExts == {<<"t","s">>, <<"t","s","x">>, <<"j","s">>, <<"j","s",
    "x">>, <<"p","y">>}
DocExts == {<<"m","d">>, <<"t","x","t">>, <<"r","s","t">>}
ConfigExts == {<<"j","s","o","n">>, <<"y","a","m","l">>, <<"y","m","l">>,
    <<"t","o","m","l">>, <<"i","n","i">>, <<"c","o","n","f">>}
DependencyFiles ==
    {<<"p","a","c","k","a","g","e",".","j","s","o","n">>, <<"p","a","c","k",
        "a","g","e","-","l","o","c","k",".","j","s","o","n">>, <<"r","e","q",
        "u","i","r","e","m","e","n","t","s",".","t","x","t">>, <<"p","o","m",
        ".","x","m","l">>, <<"c","a","r","g","o",".","t","o","m","l">>}

ScoreFilename == 50
ScoreKeyword == 20
ScoreCodeFile == 15
ScoreRoute == 25
ScoreDoc == 30
ScoreDependency == 10
ScoreReadme == 15
ScoreConfig == 5

\* the number of keywords (a list without repetitions) found in the path
KeywordHits(pathLower, keywords) ==
    Cardinality({i \in 1..Len(keywords) : Includes(pathLower, keywords[i])})

\* part_005:83-139  the score of one path
FileScoreStem(question, filePath, questionType) ==
    LET filename == ToLowerCase(BaseName(filePath))
        dots == {i \in 1..Len(filename) : filename[i] = "."}
        stem == IF dots = {} THEN filename
                ELSE SubSeq(filename, 1, SetMax(dots) - 1)
    IN  (IF Includes(ToLowerCase(question), stem) THEN ScoreFilename ELSE 0)
      + KeywordHits(ToLowerCase(filePath), questionType.keywords) * ScoreKeyword
FileScore(question, filePath, questionType) ==
    LET filename == ToLowerCase(BaseName(filePath))
        pathLower == ToLowerCase(filePath)
        type == questionType.type
    IN  (IF Includes(ToLowerCase(question), filename) THEN ScoreFilename ELSE 0)
      + KeywordHits(pathLower, questionType.keywords) * ScoreKeyword
      + (IF type \in {"code-location", "explanation"}
            /\ HasExtension(filePath, CodeExts) THEN ScoreCodeFile ELSE 0)
      + (IF type \in {"flow", "architecture"}
            /\ HasExtension(filePath, NeighborExts)
            /\ (\/ Includes(pathLower, <<"r","o","u","t","e">>)
                \/ Includes(pathLower, <<"a","p","i">>)
                \/ Includes(pathLower, <<"c","o","n","t","r","o","l","l","e",
                    "r">>)) THEN ScoreRoute ELSE 0)
      + (IF type = "documentation"
            /\ (HasExtension(pathLower, DocExts) \/ filename = <<"r","e","a",
                "d","m","e",".","m","d">>)
         THEN ScoreDoc ELSE 0)
      + (IF filename \in DependencyFiles THEN ScoreDependency ELSE 0)
      + (IF filename \in {<<"r","e","a","d","m","e",".","m","d">>, <<"r","e",
          "a","d","m","e",".","t","x","t">>} THEN ScoreReadme ELSE 0)
      + (IF type = "explanation" /\ HasExtension(pathLower, ConfigExts)
         THEN ScoreConfig ELSE 0)

\* Array.prototype.sort((a, b) => b.score - a.score): by score, descending,
\* elements of equal score in their original order (the sort is stable)
SortUnstable(scores) ==
    LET n == Len(scores)
        pos(i) == Cardinality({j \in 1..n : scores[j].score > scores[i].score})
                + Cardinality({j \in (i + 1)..n : scores[j].score = scores[i].score})
                + 1
    IN  [p \in 1..n |-> scores[CHOOSE i \in 1..n : pos(i) = p]]
SortByScore(scores) ==
    LET n == Len(scores)
        pos(i) == Cardinality({j \in 1..n : scores[j].score > scores[i].score})
                + Cardinality({j \in 1..(i - 1) : scores[j].score = scores[i].score})
                + 1
    IN  [p \in 1..n |-> scores[CHOOSE i \in 1..n : pos(i) = p]]

MaxScored == 30

\* part_005:74-152
selectFilesWithScoring(question, fileTree, questionType) ==
    LET all == [i \in 1..Len(fileTree) |->
                   [path |-> fileTree[i],
                    score |-> FileScore(question, fileTree[i], questionType)]]
        scores == SelectSeq(all, LAMBDA f : f.score > 0)
    IN  Take(SortByScore(scores), MaxScored)

\* filePath.substring(0, filePath.lastIndexOf('/'))
DirName(path) ==
    LET slashes == {i \in 1..Len(path) : path[i] = "/"}
    IN  IF slashes = {} THEN <<>> ELSE SubSeq(path, 1, SetMax(slashes) - 1)

\* String.prototype.split('/')
RECURSIVE SplitSlash(_)
SplitSlash(s) ==
    LET slashes == {i \in 1..Len(s) : s[i] = "/"}
    IN  IF slashes = {} THEN <<s>>
        ELSE <<SubSeq(s, 1, SetMin(slashes) - 1)>>
                 \o SplitSlash(SubSeq(s, SetMin(slashes) + 1, Len(s)))

\* Array.prototype.join('/')
RECURSIVE JoinSlash(_)
JoinSlash(parts) ==
    IF parts = <<>> THEN <<>>
    ELSE IF Len(parts) = 1 THEN parts[1]
    ELSE parts[1] \o <<"/">> \o JoinSlash(Tail(parts))

\* the broken Set: paths are appended without looking for them
AddAllKeepDuplicates(expanded, files) == expanded \o files

\* appending to a Set kept in insertion order
AddAll(expanded, files) ==
    expanded \o Dedupe(SelectSeq(files, LAMBDA f : ~InSeq(f, expanded)))

MaxSiblings == 3
MaxParentFiles == 2

\* part_005:164-173  the siblings added for one selected path
WithSiblings(expanded, filePath, fileTree) ==
    LET dir == DirName(filePath)
        siblings == SelectSeq(fileTree, LAMBDA f :
                        /\ StartsWith(f, dir \o <<"/">>)
                        /\ f # filePath
                        /\ ~InSeq(f, expanded))
    IN  IF dir # <<>> THEN AddAll(expanded, Take(siblings, MaxSiblings))
        ELSE expanded

\* part_005:175-186  the parent-directory files added for one selected path
WithParentFiles(expanded, filePath, fileTree) ==
    LET parts == SplitSlash(filePath)
        parentDir == JoinSlash(SubSeq(parts, 1, Len(parts) - 2))
        parentFiles == SelectSeq(fileTree, LAMBDA f :
                        /\ StartsWith(f, parentDir \o <<"/">>)
                        /\ f # filePath
                        /\ ~InSeq(f, expanded)
                        /\ HasExtension(f, NeighborExts))
    IN  IF Len(parts) > 2 THEN AddAll(expanded, Take(parentFiles, MaxParentFiles))
        ELSE expanded

\* part_005:162-187  the loop over the selected files that are still to
\* be visited: visiting a list is visiting its first half, then its second
\* half.  The Set holds every selected file, so an empty Set means there is
\* none to visit.
RECURSIVE ExpandEach(_, _, _)
ExpandEach(expanded, rest, fileTree) ==
    IF rest = <<>> \/ expanded = <<>> THEN expanded
    ELSE IF Len(rest) = 1
    THEN WithParentFiles(WithSiblings(expanded, rest[1], fileTree),
                         rest[1], fileTree)
    ELSE ExpandEach(
             ExpandEach(expanded, SubSeq(rest, 1, Len(rest) \div 2), fileTree),
             SubSeq(rest, Len(rest) \div 2 + 1, Len(rest)), fileTree)

\* part_005:157-190
expandWithNeighbors(selectedFiles, fileTree) ==
    ExpandEach(Dedupe(selectedFiles), selectedFiles, fileTree)

ImportantFiles == <<<<"R","E","A","D","M","E",".","m","d">>, <<"p","a","c",
    "k","a","g","e",".","j","s","o","n">>, <<"t","s","c","o","n","f","i","g",
    ".","j","s","o","n">>, <<"r","e","q","u","i","r","e","m","e","n","t","s",
    ".","t","x","t">>>>

MinScore == 10
MaxTopFiles == 20
MaxSelection == 30

\* part_005:209-213
TopFiles(scoredFiles) ==
    LET kept == Take(SelectSeq(scoredFiles, LAMBDA f : f.score >= MinScore),
                     MaxTopFiles)
    IN  [i \in 1..Len(kept) |-> kept[i].path]

\* part_005:219-225  one important file: the first path of the tree ending
\* with its name is added when it is not yet selected
WithImportant(expanded, important, fileTree) ==
    LET hits == {i \in 1..Len(fileTree) : EndsWith(fileTree[i], important)}
        found == fileTree[SetMin(hits)]
    IN  IF hits # {} /\ found # <<>> /\ ~InSeq(found, expanded)
        THEN Append(expanded, found)
        ELSE expanded

\* part_005:218-225
RECURSIVE WithImportantFiles(_, _, _)
WithImportantFiles(expanded, importantFiles, fileTree) ==
    IF importantFiles = <<>> THEN expanded
    ELSE WithImportantFiles(
             WithImportant(expanded, importantFiles[1], fileTree),
             Tail(importantFiles), fileTree)

\* the broken order: the important files are put before the top files
enhancedFileSelectionImportantFirst(question, fileTree) ==
    LET questionType == classifyQuestion(question)
        scoredFiles == selectFilesWithScoring(question, fileTree, questionType)
        expanded == expandWithNeighbors(TopFiles(scoredFiles), fileTree)
    IN  Take(WithImportantFiles(<<>>, ImportantFiles, fileTree) \o expanded,
             MaxSelection)

\* part_005:195-228
enhancedFileSelection(question, fileTree) ==
    LET questionType == classifyQuestion(question)
        scoredFiles == selectFilesWithScoring(question, fileTree, questionType)
        expanded == expandWithNeighbors(TopFiles(scoredFiles), fileTree)
    IN  Take(WithImportantFiles(expanded, ImportantFiles, fileTree), MaxSelection)

(***************************************************************************)
(* lib/open-ai.ts: the smart bypass of analyzeFileSelection                *)
(***************************************************************************)
\* open-ai.ts:62-69
MentionedFiles(question, fileTree) ==
    LET lowered == ToLowerCase(question)
    IN  SelectSeq(fileTree, LAMBDA path :
            /\ BaseName(path) # <<>>
            /\ Includes(lowered, ToLowerCase(BaseName(path))))

CommonFiles == {<<"p","a","c","k","a","g","e",".","j","s","o","n">>, <<"R",
    "E","A","D","M","E",".","m","d">>, <<"t","s","c","o","n","f","i","g",".",
    "j","s","o","n">>}

MaxBypass == 10

\* open-ai.ts:76-79
BypassSelectionCommonFirst(question, fileTree) ==
    LET mentionedFiles == MentionedFiles(question, fileTree)
        additionalContext == SelectSeq(fileTree, LAMBDA f :
                                 f \in CommonFiles /\ ~InSeq(f, mentionedFiles))
    IN  Take(additionalContext \o mentionedFiles, MaxBypass)
BypassSelection(question, fileTree) ==
    LET mentionedFiles == MentionedFiles(question, fileTree)
        additionalContext == SelectSeq(fileTree, LAMBDA f :
                                 f \in CommonFiles /\ ~InSeq(f, mentionedFiles))
    IN  Take(mentionedFiles \o additionalContext, MaxBypass)

(***************************************************************************)
(* actions.ts: analyzeRepoFiles prunes the tree before selecting           *)
(***************************************************************************)
PrunedExts == {<<"p","n","g">>, <<"j","p","g">>, <<"j","p","e","g">>, <<"g",
    "i","f">>, <<"s","v","g">>, <<"i","c","o">>, <<"l","o","c","k">>, <<"p",
    "d","f">>, <<"z","i","p">>, <<"t","a","r">>, <<"g","z">>, <<"m","a","p">>}

\* part_010:159-163
PrunedTree(filePaths) ==
    SelectSeq(filePaths, LAMBDA path :
        /\ ~HasExtension(ToLowerCase(path), PrunedExts)
        /\ ~Includes(path, <<"n","o","d","e","_","m","o","d","u","l","e","s",
            "/">>)
        /\ ~Includes(path, <<".","g","i","t","/">>))

(***************************************************************************)
(* SpecSelect: the selection functions applied to a question and a tree    *)
(***************************************************************************)
\* bound: the longest generated tree
MaxTree == 32

Num2(i) == <<DigitChars[(i \div 10) + 1], DigitChars[(i % 10) + 1]>>

\* generated repository paths: login/NN/x.ts, api/NN.ts, doc/NN.md
GenPath(i) ==
    CASE i % 3 = 1 -> <<"l","o","g","i","n","/">> \o Num2(i) \o <<"/","x",
        ".","t","s">>
      [] i % 3 = 2 -> <<"a","p","i","/">> \o Num2(i) \o <<".","t","s">>
      [] OTHER -> <<"d","o","c","/">> \o Num2(i) \o <<".","m","d">>

Window(start, n) == [k \in 1..n |-> GenPath(start + k - 1)]
Reverse(seq) == [k \in 1..Len(seq) |-> seq[Len(seq) + 1 - k]]

ScenarioTree == <<<<"s","r","c","/","a","u","t","h","/","l","o","g","i","n",
    ".","t","s">>, <<"s","r","c","/","a","u","t","h","/","s","e","s","s","i",
    "o","n",".","t","s">>, <<"R","E","A","D","M","E",".","m","d">>>>
AuthTree == <<<<"s","r","c","/","a","u","t","h",".","t","s">>, <<"s","r","c",
    "/","b",".","t","s">>, <<"p","a","c","k","a","g","e",".","j","s","o",
    "n">>, <<"R","E","A","D","M","E",".","m","d">>, <<"t","s","c","o","n",
    "f","i","g",".","j","s","o","n">>, <<"d","o","c","s","/","l","o","g","o",
    ".","p","n","g">>, <<"l","i","b","/","A","u","t","h",".","t","s">>>>

\* the lengths of the generated trees: the shortest and the longest ones
TreeLens == (0..4) \cup ((MaxTree - 2)..MaxTree)

SelTrees ==
    {Window(s, n) : s \in 1..3, n \in TreeLens}
        \cup {Reverse(Window(1, n)) : n \in TreeLens}
        \cup {Window(1, MaxTree) \o <<ImportantFiles[1]>>,
              <<ImportantFiles[1]>> \o Window(1, MaxTree)}
        \cup {ScenarioTree, AuthTree, Reverse(AuthTree)}

QLogin == <<"h","o","w"," ","d","o","e","s"," ","l","o","g","i","n"," ","w",
    "o","r","k">>
QAuth == <<"e","x","p","l","a","i","n"," ","s","r","c","/","a","u","t","h",
    ".","t","s"," ","p","l","e","a","s","e">>
QMention == <<"x",".","t","s">>
QAll == <<"H","o","w"," ","d","o","e","s"," ","L","o","g","i","n"," ","w",
    "o","r","k"," ","i","n"," ","t","h","e"," ","a","p","i"," ","d","o","c">>
QWhere == <<"w","h","e","r","e"," ","i","s"," ","t","h","e"," ","l","o","g",
    "i","n"," ","f","u","n","c","t","i","o","n">>
QReadme == <<"w","h","a","t"," ","i","s"," ","i","n"," ","t","h","e"," ","r",
    "e","a","d","m","e">>
SelQuestions == {QLogin, QAuth, QMention, QAll, QWhere, QReadme, <<>>}

NoType == [type |-> "none", keywords |-> <<>>]

InitSelect ==
    /\ selQuestion \in SelQuestions
    /\ selTree \in SelTrees
    /\ applied = "none"
    /\ selType = NoType
    /\ selScored = <<>>
    /\ selected = <<>>
    /\ CacheEmpty
    /\ RunIdle
    /\ ContextIdle

\* part_005:202
Classify ==
    /\ applied = "none"
    /\ applied' = "classifyQuestion"
    /\ selType' = classifyQuestion(selQuestion)
    /\ UNCHANGED <<selQuestion, selTree, selScored, selected>>
    /\ UNCHANGED <<cacheVars, runVars, ctxVars>>

\* part_005:206
Score ==
    /\ applied = "classifyQuestion"
    /\ applied' = "selectFilesWithScoring"
    /\ selScored' = selectFilesWithScoring(selQuestion, selTree, selType)
    /\ UNCHANGED <<selQuestion, selTree, selType, selected>>
    /\ UNCHANGED <<cacheVars, runVars, ctxVars>>

\* part_005:210-216
Expand ==
    /\ applied = "selectFilesWithScoring"
    /\ applied' = "expandWithNeighbors"
    /\ selected' = expandWithNeighbors(TopFiles(selScored), selTree)
    /\ UNCHANGED <<selQuestion, selTree, selType, selScored>>
    /\ UNCHANGED <<cacheVars, runVars, ctxVars>>

\* part_005:195-228
Enhanced ==
    /\ applied = "none"
    /\ applied' = "enhancedFileSelection"
    /\ selected' = enhancedFileSelection(selQuestion, selTree)
    /\ UNCHANGED <<selQuestion, selTree, selType, selScored>>
    /\ UNCHANGED <<cacheVars, runVars, ctxVars>>

\* open-ai.ts:60-80  analyzeFileSelection when the question mentions a file
Bypass ==
    /\ applied = "none"
    /\ MentionedFiles(selQuestion, selTree) # <<>>
    /\ applied' = "bypass"
    /\ selected' = BypassSelection(selQuestion, selTree)
    /\ UNCHANGED <<selQuestion, selTree, selType, selScored>>
    /\ UNCHANGED <<cacheVars, runVars, ctxVars>>

NextSelect ==
    \/ Classify
    \/ Score
    \/ Expand
    \/ Enhanced
    \/ Bypass

SpecSelect == InitSelect /\ [][NextSelect]_vars

(***************************************************************************)
(* Properties of the selection functions                                   *)
(***************************************************************************)
\* the query contains the base name of the path, whatever the case
Mentions(query, path) ==
    /\ BaseName(path) # <<>>
    /\ Includes(ToLowerCase(query), ToLowerCase(BaseName(path)))

\* the positions of the tree whose path the query mentions
MentionedAt(query, tree) == {i \in 1..Len(tree) : Mentions(query, tree[i])}

\* C4 as stated: every path of the tree whose base name occurs in the query
\* is contained in the selection the bypass returns.
C4_EveryMentionedSelected ==
    applied = "bypass" =>
        \A i \in MentionedAt(selQuestion, selTree) :
            InSeq(selTree[i], selected)

\* C4 amended: the bypass returns at most 10 paths, the mentioned ones first
\* in tree order, so each of the first 10 mentioned paths of the tree is
\* contained in the selection (all of them when at most 10 are mentioned).
C4_FirstMentionedSelected ==
    applied = "bypass" =>
        \A i \in MentionedAt(selQuestion, selTree) :
            Cardinality({j \in MentionedAt(selQuestion, selTree) : j <= i})
                    <= MaxBypass
                => InSeq(selTree[i], selected)

\* C4 witness: the bypass ran on a tree in which the query mentions more
\* paths than the bypass returns
C4_Witness ==
    /\ applied = "bypass"
    /\ Cardinality(MentionedAt(selQuestion, selTree)) > MaxBypass
    /\ Len(selected) = MaxBypass
    /\ \A k \in 1..Len(selected) : Mentions(selQuestion, selected[k])

\* the position of a path in the tree (the paths of a tree are distinct)
TreeIndex(tree, path) == CHOOSE i \in 1..Len(tree) : tree[i] = path

\* the positions of the tree whose path has a positive score
PositiveAt(question, tree, questionType) ==
    {i \in 1..Len(tree) : FileScore(question, tree[i], questionType) > 0}

\* entry a ranks before entry b: a higher score, or the same score and an
\* earlier place in the tree
RanksBefore(tree, a, b) ==
    \/ a.score > b.score
    \/ a.score = b.score /\ TreeIndex(tree, a.path) < TreeIndex(tree, b.path)

\* C9: selectFilesWithScoring returns only paths with score > 0, sorted by
\* score descending, paths of equal score in tree order, and only the 30
\* highest-ranked of them.
C9_ScoredSortedStableTop30 ==
    applied = "selectFilesWithScoring" =>
        LET positive == PositiveAt(selQuestion, selTree, selType)
            n == Len(selScored)
        IN  /\ \A k \in 1..n :
                  /\ InSeq(selScored[k].path, selTree)
                  /\ selScored[k].score
                        = FileScore(selQuestion, selScored[k].path, selType)
                  /\ selScored[k].score > 0
            /\ \A k \in 1..n : \A m \in (k + 1)..n :
                  RanksBefore(selTree, selScored[k], selScored[m])
            /\ n = IF Cardinality(positive) < 30 THEN Cardinality(positive)
                   ELSE 30
            /\ \A i \in positive :
                  (\A k \in 1..n : selScored[k].path # selTree[i]) =>
                      \A k \in 1..n :
                          RanksBefore(selTree, selScored[k],
                              [path |-> selTree[i],
                               score |-> FileScore(selQuestion, selTree[i],
                                                   selType)])

\* C9 witness: a scored list of 30 entries cut from more than 30 positive
\* paths, with two entries of equal score and two of different scores
C9_Witness ==
    /\ applied = "selectFilesWithScoring"
    /\ Len(selScored) = 30
    /\ Cardinality(PositiveAt(selQuestion, selTree, selType)) > 30
    /\ \E k \in 1..29 : selScored[k].score = selScored[k + 1].score
    /\ \E k \in 1..29 : selScored[k].score > selScored[k + 1].score

LoginTs == ScenarioTree[1]
SessionTs == ScenarioTree[2]
ReadmeMd == ScenarioTree[3]

\* the scenario of C10 has been scored
ScenarioScored ==
    /\ selQuestion = QLogin
    /\ selTree = ScenarioTree
    /\ applied = "selectFilesWithScoring"

\* C10 as stated: in the scenario src/auth/login.ts scores at least 70 and
\* src/auth/session.ts is excluded from the scored list.
C10_LoginAtLeast70 ==
    ScenarioScored =>
        /\ \E k \in 1..Len(selScored) :
              selScored[k].path = LoginTs /\ selScored[k].score >= 70
        /\ \A k \in 1..Len(selScored) : selScored[k].path # SessionTs

\* C10 amended: in the scenario src/auth/login.ts scores exactly 20 (one
\* keyword match; its base name "login.ts" does not occur in the query, so
\* there is no filename match), README.md scores 15, and src/auth/session.ts
\* scores 0 and is excluded from the scored list.
C10_LoginKeywordOnly ==
    ScenarioScored =>
        /\ selType.type = "flow"
        /\ selType.keywords = <<SubSeq(QLogin, 10, 14), SubSeq(QLogin, 16, 19)>>
        /\ selScored = <<[path |-> LoginTs, score |-> 20],
                         [path |-> ReadmeMd, score |-> 15]>>
        /\ FileScore(selQuestion, SessionTs, selType) = 0

\* C10 witness: the scenario was classified and scored, and the scored list
\* holds login.ts but not session.ts
C10_Witness ==
    /\ ScenarioScored
    /\ selScored # <<>>
    /\ selScored[1].path = LoginTs
    /\ \A k \in 1..Len(selScored) : selScored[k].path # SessionTs

(***************************************************************************)
(* lib/security-utils.ts: sanitizeUserInput                                *)
(***************************************************************************)
\* the number of whitespace characters of s from position i on
SpacesAt(s, i) ==
    SetMin({j \in i..(Len(s) + 1) : j = Len(s) + 1 \/ ~IsSpace(s[j])}) - i

\* part_002:31  the length of the match of /system\s*:\s*/i at the head of
\* s, 0 when there is none
SystemPromptMatch(s) ==
    IF /\ Len(s) >= 6
       /\ ToLowerCase(SubSeq(s, 1, 6)) = <<"s","y","s","t","e","m">>
       /\ 7 + SpacesAt(s, 7) <= Len(s)
       /\ s[7 + SpacesAt(s, 7)] = ":"
    THEN 7 + SpacesAt(s, 7) + SpacesAt(s, 8 + SpacesAt(s, 7))
    ELSE 0

\* part_002:49-51  replace(pattern, '') for that pattern: every match is
\* removed (a match begins with "s" and goes on with "ystem", white space
\* and ":", so no two matches overlap)
RemoveSystemPrompt(s) ==
    LET starts == {i \in 1..Len(s) :
                      /\ LowerChar(s[i]) = "s"
                      /\ SystemPromptMatch(SubSeq(s, i, Len(s))) > 0}
        removed == UNION {i..(i + SystemPromptMatch(SubSeq(s, i, Len(s))) - 1) :
                             i \in starts}
    IN  IF starts = {} THEN s ELSE AtPositions(s, (1..Len(s)) \ removed)

\* part_002:9-68.  Of the injection patterns only /system\s*:\s*/gi can match
\* a query of the model; the queries are shorter than MAX_INPUT_LENGTH and
\* hold no control characters or runs of newlines.
sanitizeUserInput(input) == Trim(RemoveSystemPrompt(input))

(***************************************************************************)
(* The selection pipeline: analyzeRepoFiles and analyzeFileSelection       *)
(***************************************************************************)
\* an optional string argument is given (undefined and '' are falsy)
Present(x) == x # <<>>

\* a fallback that returns the whole tree
FallbackSelectionWholeTree(fileTree) == fileTree

\* open-ai.ts:129  the safe defaults returned when the AI selection fails
FallbackSelection(fileTree) ==
    SelectSeq(fileTree, LAMBDA f :
        f = <<"R","E","A","D","M","E",".","m","d">> \/ f = <<"p","a","c","k",
            "a","g","e",".","j","s","o","n">>)

\* the step touches no cache
NoCacheUse ==
    /\ returned' = Void
    /\ UNCHANGED <<cache, origin, now, ticks>>

\* execution p goes on with the given position, result, path and component
Moves(p, to, res, path, component) ==
    /\ pc' = [pc EXCEPT ![p] = to]
    /\ result' = [result EXCEPT ![p] = res]
    /\ via' = [via EXCEPT ![p] = path]
    /\ used' = [used EXCEPT ![p] = used[p] \o component]

Enters(p, fn, query, tree, owner, repo) ==
    call' = [call EXCEPT ![p] = [fn |-> fn, query |-> query, tree |-> tree,
                                 owner |-> owner, repo |-> repo]]

\* part_010:144-177  analyzeRepoFiles: the tree is pruned and the selection
\* is made by enhancedFileSelection, which is given owner and repo and
\* uses neither
analyzeRepoFiles(p, query, filePaths, owner, repo) ==
    /\ pc[p] = "idle"
    /\ Enters(p, "analyzeRepoFiles", query, PrunedTree(filePaths), owner, repo)
    /\ Moves(p, "returned",
             enhancedFileSelection(query, PrunedTree(filePaths)), "enhanced",
             <<"classifyQuestion", "selectFilesWithScoring",
               "expandWithNeighbors">>)
    /\ NoCacheUse
    /\ UNCHANGED <<selVars, ctxVars>>

\* analyzeFileSelection with the cache looked up before the bypass is taken
analyzeFileSelectionLookupFirst(p, question, fileTree, owner, repo) ==
    LET key == QueryKey(owner, repo, sanitizeUserInput(question)) IN
    IF Present(owner) /\ Present(repo)
    THEN /\ cache' = cleanExpired(cache, now)
         /\ Forgot
         /\ returned' = ReadRecord("getCachedQuerySelection",
                            <<owner, repo, sanitizeUserInput(question)>>,
                            CacheGet(cache', key))
         /\ UNCHANGED <<now, ticks>>
         /\ IF MentionedFiles(question, fileTree) # <<>>
            THEN Moves(p, "returned", BypassSelection(question, fileTree),
                       "bypass", <<"mentionedFiles">>)
            ELSE Moves(p, "lookup", CacheGet(cache', key).data,
                       IF CacheGet(cache', key).found THEN "hit" ELSE "miss",
                       <<"mentionedFiles", "getCachedQuerySelection">>)
    ELSE /\ IF MentionedFiles(question, fileTree) # <<>>
            THEN Moves(p, "returned", BypassSelection(question, fileTree),
                       "bypass", <<"mentionedFiles">>)
            ELSE Moves(p, "ai", <<>>, "none", <<"mentionedFiles", "ai">>)
         /\ NoCacheUse

\* open-ai.ts:46-84  analyzeFileSelection up to its first await: the bypass
\* returns at once; with owner and repo the selection cache is looked up
\* under the sanitized question; without them the AI is asked
analyzeFileSelection(p, question, fileTree, owner, repo) ==
    LET key == QueryKey(owner, repo, sanitizeUserInput(question)) IN
    IF MentionedFiles(question, fileTree) # <<>>
    THEN /\ Moves(p, "returned", BypassSelection(question, fileTree),
                  "bypass", <<"mentionedFiles">>)
         /\ NoCacheUse
    ELSE IF Present(owner) /\ Present(repo)
    THEN /\ cache' = cleanExpired(cache, now)
         /\ Forgot
         /\ returned' = ReadRecord("getCachedQuerySelection",
                            <<owner, repo, sanitizeUserInput(question)>>,
                            CacheGet(cache', key))
         /\ Moves(p, "lookup", CacheGet(cache', key).data,
                  IF CacheGet(cache', key).found THEN "hit" ELSE "miss",
                  <<"mentionedFiles", "getCachedQuerySelection">>)
         /\ UNCHANGED <<now, ticks>>
    ELSE /\ Moves(p, "ai", <<>>, "none", <<"mentionedFiles", "ai">>)
         /\ NoCacheUse

\* part_010:170-174  enhancedFileSelection throws and analyzeRepoFiles
\* falls back to analyzeFileSelection on the pruned tree (its only caller)
analyzeRepoFilesFallback(p, query, filePaths, owner, repo) ==
    /\ pc[p] = "idle"
    /\ Enters(p, "analyzeRepoFiles", query, PrunedTree(filePaths), owner, repo)
    /\ analyzeFileSelection(p, query, PrunedTree(filePaths), owner, repo)
    /\ UNCHANGED <<selVars, ctxVars>>

\* open-ai.ts:85-107  after the lookup: a hit is returned, a miss asks the AI
AfterLookup(p) ==
    /\ pc[p] = "lookup"
    /\ IF via[p] = "hit"
       THEN Moves(p, "returned", result[p], "hit", <<>>)
       ELSE Moves(p, "ai", <<>>, "none", <<"ai">>)
    /\ NoCacheUse
    /\ UNCHANGED <<call, selVars, ctxVars>>

\* open-ai.ts:108-125  the AI's reply parses to the list files: it is
\* stored when owner and repo are given and it is not empty, and returned
\* as it is
AIReply(p, files) ==
    /\ pc[p] = "ai"
    /\ IF Present(call[p].owner) /\ Present(call[p].repo) /\ Len(files) > 0
       THEN LET key == QueryKey(call[p].owner, call[p].repo,
                                sanitizeUserInput(call[p].query))
            IN  /\ cache' = CacheSet(cache, key, files, now + TTL_QUERY)
                /\ Wrote(key, "cacheQuerySelection",
                         <<call[p].owner, call[p].repo,
                           sanitizeUserInput(call[p].query), files>>)
                /\ returned' = Void
                /\ UNCHANGED <<now, ticks>>
                /\ Moves(p, "stored", files, "ai", <<"cacheQuerySelection">>)
       ELSE /\ Moves(p, "returned", files, "ai", <<>>)
            /\ NoCacheUse
    /\ UNCHANGED <<call, selVars, ctxVars>>

\* open-ai.ts:126-130  the AI call throws or its reply does not parse
AIFails(p) ==
    /\ pc[p] = "ai"
    /\ Moves(p, "returned", FallbackSelection(call[p].tree), "fallback", <<>>)
    /\ NoCacheUse
    /\ UNCHANGED <<call, selVars, ctxVars>>

\* open-ai.ts:125  return selectedFiles, after the store
ReturnStored(p) ==
    /\ pc[p] = "stored"
    /\ Moves(p, "returned", result[p], via[p], <<>>)
    /\ NoCacheUse
    /\ UNCHANGED <<call, selVars, ctxVars>>

\* the caller has taken the selection; the execution can serve a new request
Finish(p) ==
    /\ pc[p] = "returned"
    /\ pc' = [pc EXCEPT ![p] = "idle"]
    /\ call' = [call EXCEPT ![p] = NoCall]
    /\ result' = [result EXCEPT ![p] = <<>>]
    /\ via' = [via EXCEPT ![p] = "none"]
    /\ used' = [used EXCEPT ![p] = <<>>]
    /\ NoCacheUse
    /\ UNCHANGED <<selVars, ctxVars>>

(***************************************************************************)
(* Spec: concurrent requests to the pipeline over one shared cache         *)
(***************************************************************************)
PipeTree == ScenarioTree \o <<<<"d","o","c","s","/","l","o","g","o",".","p",
    "n","g">>, <<"p","a","c","k","a","g","e",".","j","s","o","n">>>>

\* " System: How does LOGIN work " is QLogin after sanitizing and
\* normalizing; "explain Login.ts" mentions a file of the tree
QLoud == <<" ","S","y","s","t","e","m",":"," ","H","o","w"," ","d","o","e",
    "s"," ","L","O","G","I","N"," ","w","o","r","k"," ">>
QExplain == <<"e","x","p","l","a","i","n"," ","L","o","g","i","n",".","t",
    "s">>
PipeQueries == {QLogin, QLoud, QExplain}

\* the requests: query, owner, repo; owner and repo are optional
PipeCalls == {<<q, Owner1, Repo1>> : q \in PipeQueries}
                 \cup {<<QLogin, <<>>, <<>>>>}

\* what the AI may answer: any list of strings
AIReplies == {<<LoginTs>>, <<LoginTs, LoginTs>>, <<>>}

Init == CacheEmpty /\ SelectIdle /\ RunIdle /\ ContextIdle

Next ==
    \/ \E p \in Procs, c \in PipeCalls :
          analyzeRepoFiles(p, c[1], PipeTree, c[2], c[3])
    \/ \E p \in Procs, c \in PipeCalls :
          analyzeRepoFilesFallback(p, c[1], PipeTree, c[2], c[3])
    \/ \E p \in Procs : AfterLookup(p)
    \/ \E p \in Procs, files \in AIReplies : AIReply(p, files)
    \/ \E p \in Procs : AIFails(p)
    \/ \E p \in Procs : ReturnStored(p)
    \/ \E p \in Procs : Finish(p)
    \/ \E d \in {1, TTL_QUERY} : Tick(d)

Spec == Init /\ [][Next]_vars

(***************************************************************************)
(* Properties of the pipeline                                              *)
(***************************************************************************)
Distinct(seq) == \A i, j \in 1..Len(seq) : i # j => seq[i] # seq[j]

\* C5: every selection returned to a caller is a list of distinct paths
\* with at most 30 entries, and at most 10 when the bypass produced it.
C5_SelectionDistinctBounded ==
    \A p \in Procs :
        pc[p] = "returned" =>
            /\ Distinct(result[p])
            /\ Len(result[p]) <= 30
            /\ via[p] = "bypass" => Len(result[p]) <= 10

\* C6: through analyzeRepoFiles, a query that contains the base name of a
\* path of the pruned tree gets the bypass list, and selectFilesWithScoring
\* and the neighbour expansion are not used for it.
C6_BypassReplacesScorer ==
    \A p \in Procs :
        (/\ pc[p] = "returned"
         /\ call[p].fn = "analyzeRepoFiles"
         /\ MentionedAt(call[p].query, call[p].tree) # {}) =>
            /\ ~InSeq("selectFilesWithScoring", used[p])
            /\ ~InSeq("expandWithNeighbors", used[p])
            /\ result[p] = BypassSelection(call[p].query, call[p].tree)

\* execution p returns in this step
Returns(p) == pc[p] # "returned" /\ pc'[p] = "returned"

\* C7: when a selection made for a query with owner and repo, without
\* bypass and without a cache hit, returns a non-empty list, the cache holds
\* at that moment, under the key of owner/repo and the lower-cased trimmed
\* query, exactly the returned list, expiring 24h after the store.
C7_Step ==
    \A p \in Procs :
        (/\ Returns(p)
         /\ Present(call'[p].owner) /\ Present(call'[p].repo)
         /\ via'[p] \in {"enhanced", "ai"}
         /\ result'[p] # <<>>) =>
            LET key == <<"q","u","e","r","y",":">>
                \o RepoNs(call'[p].owner, call'[p].repo)
                           \o <<":">> \o NormalForm(call'[p].query)
            IN  /\ key \in DOMAIN cache'
                /\ cache'[key].data = result'[p]
                /\ cache'[key].expires = origin'[key].at + Hours24
C7_StoreBeforeReturn == [][C7_Step]_vars

\* the key analyzeFileSelection looks up for the call of execution p
LookupKey(c) == QueryKey(c.owner, c.repo, sanitizeUserInput(c.query))

\* a position of seq holding a comes before one holding b
Precedes(seq, a, b) ==
    \E i, j \in 1..Len(seq) : i < j /\ seq[i] = a /\ seq[j] = b

\* C8: analyzeFileSelection looks the selection cache up before any AI
\* selection; the lookup is a hit exactly when the cache holds an unexpired
\* entry for the repository and the normalized query; a hit returns the
\* cached list unchanged, with no scoring, no AI call and no store: the
\* execution adds no entry to the cache and changes none.
C8_Step ==
    \A p \in Procs :
        /\ (pc[p] = "idle" /\ pc'[p] = "lookup") =>
              LET key == LookupKey(call'[p])
                  unexpired == key \in DOMAIN cache /\ cache[key].expires >= now
              IN  /\ unexpired <=> via'[p] = "hit"
                  /\ unexpired => result'[p] = cache[key].data
                  /\ ~InSeq("ai", used'[p])
        /\ (pc[p] = "lookup" /\ via[p] = "hit" /\ pc'[p] # "lookup") =>
              /\ pc'[p] = "returned"
              /\ via'[p] = "hit"
              /\ result'[p] = result[p]
              /\ used'[p] = <<"mentionedFiles", "getCachedQuerySelection">>
        /\ (via'[p] = "hit" /\ pc'[p] # pc[p]) =>
              \A k \in DOMAIN cache' :
                  k \in DOMAIN cache /\ cache'[k] = cache[k]
        /\ (InSeq("ai", used'[p]) /\ Present(call'[p].owner)
                /\ Present(call'[p].repo)) =>
              Precedes(used'[p], "getCachedQuerySelection", "ai")
ClassifyWords == {<<"w","h","e","r","e">>, <<"f","u","n","c","t","i","o",
    "n">>, <<"E","x","p","l","a","i","n">>, <<"t","h","e">>,
                  <<"a","r","c","h","i","t","e","c","t","u","r","e">>, <<"H",
                      "o","w">>, <<"w","o","r","k">>, <<"w","h","y">>, <<"f",
                      "i","x">>,
                  <<"i","m","p","r","o","v","e">>}

\* bound: the number of words of a question
MaxWords == 3

RECURSIVE JoinWords(_)
JoinWords(ws) ==
    IF ws = <<>> THEN <<>>
    ELSE IF Len(ws) = 1 THEN ws[1]
    ELSE ws[1] \o <<" ">> \o JoinWords(Tail(ws))

ClassifyQuestions ==
    {JoinWords(ws) : ws \in UNION {[1..n -> ClassifyWords] : n \in 0..MaxWords}}

InitClassify ==
    /\ selQuestion \in ClassifyQuestions
    /\ selTree = <<>>
    /\ applied = "none"
    /\ selType = NoType
    /\ selScored = <<>>
    /\ selected = <<>>
    /\ CacheEmpty
    /\ RunIdle
    /\ ContextIdle

\* part_005:15-57  a second call of classifyQuestion with the same question
ClassifyAgain ==
    /\ applied = "classifyQuestion"
    /\ applied' = "classifyQuestion again"
    /\ selType' = classifyQuestion(selQuestion)
    /\ UNCHANGED <<selQuestion, selTree, selScored, selected>>
    /\ UNCHANGED <<cacheVars, runVars, ctxVars>>

NextClassify ==
    \/ Classify
    \/ ClassifyAgain

SpecClassify == InitClassify /\ [][NextClassify]_vars

\* the tests of classifyQuestion in the order of the source, with the type
\* each one returns
ClassTests(q) ==
    <<IsCodeLocation(q), IsArchitecture(q), IsFlow(q), IsBugAnalysis(q),
      IsImprovement(q), IsDocumentation(q), IsExplanation(q), TRUE>>
ClassTypes ==
    <<"code-location", "architecture", "flow", "bug-analysis", "improvement",
      "documentation", "explanation", "general">>

Classified == applied \in {"classifyQuestion", "classifyQuestion again"}

\* C11 (first match wins): once classifyQuestion has run, its type is one of
\* the eight types and is that of the first test, in the order of the
\* source, that the lower-cased question passes; a question passing the
\* architecture test and not the code-location test is "architecture"; the
\* type is "explanation" exactly when the question passes the explanation
\* test and none of the six tests before it.
C11_FirstMatchOrder ==
    Classified =>
        LET q == ToLowerCase(selQuestion)
            tests == ClassTests(q)
        IN  /\ \E k \in 1..8 :
                  /\ tests[k]
                  /\ \A j \in 1..(k - 1) : ~tests[j]
                  /\ selType.type = ClassTypes[k]
            /\ (IsArchitecture(q) /\ ~IsCodeLocation(q))
                  => selType.type = "architecture"
            /\ selType.type = "explanation"
                  <=> (IsExplanation(q) /\ \A j \in 1..6 : ~tests[j])

\* C11 (determinism): a second call with the same question returns the same
\* type and keywords as the first
C11_SecondCallSame ==
    applied' = "classifyQuestion again" => selType' = selType

QExplainArchitecture == <<"E","x","p","l","a","i","n"," ","t","h","e"," ",
    "a","r","c","h","i","t","e","c","t","u","r","e">>

ExpandTree ==
    <<<<"a","/","b","/","x",".","t","s">>, <<"a","/","b","/","y",".","t",
        "s">>, <<"a","/","b","/","z",".","m","d">>, <<"a","/","b","/","y",
        ".","t","s">>, <<"a","/","b","/","w",".","p","y">>,
      <<"a","/","c",".","t","s">>, <<"a","/","d",".","m","d">>, <<"r",".",
          "t","s">>, <<"R","E","A","D","M","E",".","m","d">>, <<"a","/","b",
          "/","c","/","d","e","e","p",".","t","s">>,
      <<"a","/","b","/","v",".","j","s">>, <<"q","/","e",".","t","s">>>>

ExpandTrees ==
    {ExpandTree, Reverse(ExpandTree), <<>>, Window(1, 9), ScenarioTree}

\* the paths a selection is made of: paths of the trees and one of no tree
ExpandPaths ==
    {<<"a","/","b","/","x",".","t","s">>, <<"a","/","b","/","c","/","d","e",
        "e","p",".","t","s">>, <<"a","/","c",".","t","s">>, <<"r",".","t",
        "s">>, <<"q","/","e",".","t","s">>,
     <<"z","z","/","n","e","w",".","t","s">>, GenPath(1), <<"s","r","c","/",
         "a","u","t","h","/","l","o","g","i","n",".","t","s">>}

\* bound: the number of paths of a selection
MaxSelected == 2

ExpandSelections ==
    {sel \in UNION {[1..n -> ExpandPaths] : n \in 0..MaxSelected} :
        \A i, j \in 1..Len(sel) : i # j => sel[i] # sel[j]}

InitExpand ==
    /\ selInput \in ExpandSelections
    /\ selTree \in ExpandTrees
    /\ selQuestion = <<>>
    /\ applied = "none"
    /\ selType = NoType
    /\ selScored = <<>>
    /\ selected = <<>>
    /\ fileResults = <<>>
    /\ maxTokens = 0
    /\ context = <<>>
    /\ tokenCount = 0
    /\ ctxOp = "none"
    /\ contextIndex = <<>>
    /\ answer = <<>>
    /\ rawContext = <<>>
    /\ questionTokens = 0
    /\ historyTokens = 0
    /\ reads = <<>>
    /\ filesProcessed = 0
    /\ validation = NoValidation
    /\ CacheEmpty
    /\ RunIdle

\* part_005:157-190
ExpandSelection ==
    /\ applied = "none"
    /\ applied' = "expandWithNeighbors"
    /\ selected' = expandWithNeighbors(selInput, selTree)
    /\ UNCHANGED <<selQuestion, selTree, selType, selScored, selInput>>
    /\ UNCHANGED <<fileResults, maxTokens, context, tokenCount, ctxOp,
                   contextIndex, answer,
                   validation, rawContext>>
    /\ UNCHANGED <<questionTokens, historyTokens, reads, filesProcessed>>
    /\ UNCHANGED <<cacheVars, runVars>>

NextExpand ==
    \/ ExpandSelection

SpecExpand == InitExpand /\ [][NextExpand]_vars

\* C12: expansion is non-destructive: the list expandWithNeighbors returns
\* for a selection of distinct paths and a tree holds every path of the
\* selection, holds no path twice, and every path of it that is not of the
\* selection is a path of the tree.
C12_ExpansionNonDestructive ==
    applied = "expandWithNeighbors" =>
        /\ \A i \in 1..Len(selInput) : InSeq(selInput[i], selected)
        /\ Distinct(selected)
        /\ \A j \in 1..Len(selected) :
              ~InSeq(selected[j], selInput) => InSeq(selected[j], selTree)

\* C12 witness: a selection of two paths, one of them of no tree, was
\* expanded over a tree that lists a path twice, and paths were added
C12_Witness ==
    /\ applied = "expandWithNeighbors"
    /\ Len(selInput) = 2
    /\ \E i \in 1..2 : ~InSeq(selInput[i], selTree)
    /\ ~Distinct(selTree)
    /\ Len(selected) > Len(selInput)

(***************************************************************************)
(* Text: lines, numbers, tokens                                            *)
(***************************************************************************)
\* String.prototype.split('\n')
SplitLines(s) ==
    LET breaks == PositionsIn(s, {i \in 1..Len(s) : s[i] = "\n"})
        from(k) == IF k = 1 THEN 1 ELSE breaks[k - 1] + 1
        to(k) == IF k = Len(breaks) + 1 THEN Len(s) ELSE breaks[k] - 1
    IN  [k \in 1..(Len(breaks) + 1) |-> SubSeq(s, from(k), to(k))]

\* Array.prototype.join(sep)
RECURSIVE Join(_, _)
Join(parts, sep) ==
    IF parts = <<>> THEN <<>>
    ELSE IF Len(parts) = 1 THEN parts[1]
    ELSE LET half == Len(parts) \div 2
         IN  Join(SubSeq(parts, 1, half), sep) \o sep
                 \o Join(SubSeq(parts, half + 1, Len(parts)), sep)

\* Number.prototype.toString, for a natural number
RECURSIVE NumberToString(_)
NumberToString(n) ==
    IF n < 10 THEN <<DigitChars[n + 1]>>
    ELSE NumberToString(n \div 10) \o <<DigitChars[(n % 10) + 1]>>

\* String.prototype.padStart(width, ' ')
PadStart(s, width) ==
    IF Len(s) >= width THEN s ELSE [i \in 1..(width - Len(s)) |-> " "] \o s

IsDigit(c) == \E i \in 1..10 : c = DigitChars[i]

\* parseInt(digits, 10) for a string of digits
RECURSIVE ParseInt(_)
ParseInt(digits) ==
    IF digits = <<>> THEN 0
    ELSE 10 * ParseInt(SubSeq(digits, 1, Len(digits) - 1))
             + (CHOOSE d \in 0..9 : DigitChars[d + 1] = digits[Len(digits)])

\* String.prototype.replace(pattern, '') for a string pattern: the first
\* occurrence is removed
RemoveFirst(s, pattern) ==
    LET hits == {i \in 1..(Len(s) - Len(pattern) + 1) :
                    SubSeq(s, i, i + Len(pattern) - 1) = pattern}
    IN  IF hits = {} THEN s
        ELSE SubSeq(s, 1, SetMin(hits) - 1)
                 \o SubSeq(s, SetMin(hits) + Len(pattern), Len(s))

\* part_007:7-14  countTokens.  The tokenizer library is not part of the
\* repository; the count is the one countTokens itself falls back to, one
\* token for every four characters, rounded up.
countTokens(text) == (Len(text) + 3) \div 4

(***************************************************************************)
(* lib/context-utils.ts: normalizeContext                                  *)
(***************************************************************************)
HeaderPrefix == <<"-","-","-"," ","F","I","L","E",":"," ">>
HeaderSuffix == <<" ","-","-","-">>

\* context-utils.ts:32  line.startsWith('--- FILE: ') && line.endsWith(' ---')
IsFileHeader(line) == StartsWith(line, HeaderPrefix) /\ EndsWith(line, HeaderSuffix)

\* context-utils.ts:33
\* line.replace('--- FILE: ', '').replace(' ---', '').trim()
HeaderPath(line) == Trim(RemoveFirst(RemoveFirst(line, HeaderPrefix), HeaderSuffix))

\* line.trim() === ''
IsBlank(line) == Trim(line) = <<>>

\* context-utils.ts:60  line.includes('NOTE:') || line.includes('CONTEXT')
IsNoteLine(line) == Includes(line, <<"N","O","T","E",
    ":">>) \/ Includes(line, <<"C","O","N","T","E","X","T">>)

\* context-utils.ts:23-26  the loop's variables; currentFile is <<>> when
\* it is null or the empty string, the two values the loop takes for false
NormalizeStart ==
    [normalized |-> <<>>, currentFile |-> <<>>, seenFiles |-> {},
     lastWasEmpty |-> FALSE]

\* the broken loop body: of a run of blank lines the first one is the one
\* that is skipped
NormalizeLineSkipFirstBlank(st, line) ==
    IF IsFileHeader(line)
    THEN IF HeaderPath(line) \in st.seenFiles
         THEN [st EXCEPT !.currentFile = <<>>]
         ELSE [normalized |-> Append(st.normalized, line),
               currentFile |-> HeaderPath(line),
               seenFiles |-> st.seenFiles \cup {HeaderPath(line)},
               lastWasEmpty |-> FALSE]
    ELSE IF IsBlank(line) /\ (~st.lastWasEmpty \/ st.normalized = <<>>)
    THEN [st EXCEPT !.lastWasEmpty = TRUE]
    ELSE [st EXCEPT
            !.lastWasEmpty = IsBlank(line),
            !.normalized = IF st.currentFile # <<>> \/ IsNoteLine(line)
                           THEN Append(st.normalized, line)
                           ELSE st.normalized]

\* context-utils.ts:29-62  one turn of the loop
NormalizeLine(st, line) ==
    IF IsFileHeader(line)
    THEN IF HeaderPath(line) \in st.seenFiles
         THEN [st EXCEPT !.currentFile = <<>>]
         ELSE [normalized |-> Append(st.normalized, line),
               currentFile |-> HeaderPath(line),
               seenFiles |-> st.seenFiles \cup {HeaderPath(line)},
               lastWasEmpty |-> FALSE]
    ELSE IF IsBlank(line) /\ (st.lastWasEmpty \/ st.normalized = <<>>)
    THEN st
    ELSE [st EXCEPT
            !.lastWasEmpty = IsBlank(line),
            !.normalized = IF st.currentFile # <<>> \/ IsNoteLine(line)
                           THEN Append(st.normalized, line)
                           ELSE st.normalized]

\* context-utils.ts:28-63
RECURSIVE NormalizeLines(_, _)
NormalizeLines(st, lines) ==
    IF lines = <<>> THEN st
    ELSE NormalizeLines(NormalizeLine(st, lines[1]), Tail(lines))

\* the broken end: the trailing blank lines are kept
KeepTrailingBlank(lines) == lines

\* context-utils.ts:66-68  the trailing blank lines are removed
DropTrailingBlank(lines) ==
    LET solid == {i \in 1..Len(lines) : ~IsBlank(lines[i])}
    IN  IF solid = {} THEN <<>> ELSE SubSeq(lines, 1, SetMax(solid))

\* context-utils.ts:19-71
normalizeContext(text) ==
    IF text = <<>> THEN <<>>
    ELSE Join(DropTrailingBlank(
                  NormalizeLines(NormalizeStart, SplitLines(text)).normalized),
              <<"\n">>)

(***************************************************************************)
(* app/actions: fetchRepoFiles                                             *)
(***************************************************************************)
\* local-repo.ts:410-444  getLocalFileContent threw: the file is not there,
\* is no file, lies outside the repository or could not be read
ReadFailed == <<"throws">>

\* local-repo.ts:461  content: null, a file that could not be read
Null == <<"null">>

\* the broken batch: a file that could not be read has no result
getLocalFileContentBatchDropping(rs) ==
    SelectSeq(rs, LAMBDA r : r.content # ReadFailed)

\* local-repo.ts:449-469  one result for each file asked for, in the order
\* asked: the content read, or null when the read threw
getLocalFileContentBatch(rs) ==
    [i \in 1..Len(rs) |->
        [path |-> rs[i].path,
         content |-> IF rs[i].content = ReadFailed THEN Null
                     ELSE rs[i].content]]

\* part_010:200  if (content): null and the empty string are false
HasContent(content) == content # Null /\ content # <<>>

\* part_010:202-206  every line gets its number, padded to 4, and " | "
NumberedContent(content) ==
    LET lines == SplitLines(content)
    IN  Join([i \in 1..Len(lines) |->
                 PadStart(NumberToString(i), 4) \o <<" ","|"," ">>
                     \o lines[i]], <<"\n">>)

\* part_010:215
FileBlock(path, numberedContent) ==
    <<"\n">> \o <<"-","-","-"," ","F","I","L","E",":"," ">> \o path \o <<" ",
        "-","-","-">> \o <<"\n">> \o numberedContent \o <<"\n">>

\* part_010:211
TruncationNotice(max) ==
    <<"\n">> \o <<"-","-","-"," ","N","O","T","E",":"," ","C","o","n","t",
        "e","x","t"," ","t","r","u","n","c","a","t","e","d"," ","d","u","e",
        " ","t","o"," ","t","o","k","e","n"," ","l","i","m","i","t"," ",
        "(">> \o NumberToString(max)
        \o <<" ","t","o","k","e","n","s",")"," ","-","-","-">> \o <<"\n">>

\* part_010:197
MAX_CONTEXT_TOKENS == 110000

\* the broken loop: a file over the limit is skipped and the loop goes on
RECURSIVE AssembleLoopSkipping(_, _, _, _)
AssembleLoopSkipping(text, currentTokenCount, rest, max) ==
    IF rest = <<>>
    THEN [context |-> text, currentTokenCount |-> currentTokenCount]
    ELSE IF ~HasContent(rest[1].content)
    THEN AssembleLoopSkipping(text, currentTokenCount, Tail(rest), max)
    ELSE LET numberedContent == NumberedContent(rest[1].content)
             fileTokens == countTokens(numberedContent)
         IN  IF currentTokenCount + fileTokens > max
             THEN AssembleLoopSkipping(text \o TruncationNotice(max),
                                       currentTokenCount, Tail(rest), max)
             ELSE AssembleLoopSkipping(
                      text \o FileBlock(rest[1].path, numberedContent),
                      currentTokenCount + fileTokens, Tail(rest), max)

\* part_010:199-218  the loop over the files read, for a token limit max:
\* the document and currentTokenCount when it ends
RECURSIVE AssembleLoop(_, _, _, _)
AssembleLoop(text, currentTokenCount, rest, max) ==
    IF rest = <<>>
    THEN [context |-> text, currentTokenCount |-> currentTokenCount]
    ELSE IF ~HasContent(rest[1].content)
    THEN AssembleLoop(text, currentTokenCount, Tail(rest), max)
    ELSE LET numberedContent == NumberedContent(rest[1].content)
             fileTokens == countTokens(numberedContent)
         IN  IF currentTokenCount + fileTokens > max
             THEN [context |-> text \o TruncationNotice(max),
                   currentTokenCount |-> currentTokenCount]
             ELSE AssembleLoop(text \o FileBlock(rest[1].path, numberedContent),
                               currentTokenCount + fileTokens, Tail(rest), max)

\* part_010:226  fileResults.filter(f => f.content).length
FilesProcessed(results) ==
    Len(SelectSeq(results, LAMBDA r : HasContent(r.content)))

NoFilesSelected == <<"N","o"," ","s","p","e","c","i","f","i","c"," ","f","i",
    "l","e","s"," ","w","e","r","e"," ","s","e","l","e","c","t","e","d",".">>

\* part_010:220-225  after the loop
FinishContext(text) ==
    normalizeContext(IF text = <<>> THEN NoFilesSelected ELSE text)

(***************************************************************************)
(* lib/context-utils.ts: buildContextIndex                                 *)
(***************************************************************************)
\* context-utils.ts:112  /^\s*\d+\s*\|/.test(line)
IsNumberedLine(line) ==
    \E i \in 1..Len(line), j \in 1..Len(line) :
        /\ i <= j
        /\ \A k \in 1..(i - 1) : IsSpace(line[k])
        /\ \A k \in i..j : IsDigit(line[k])
        /\ \E b \in (j + 1)..Len(line) :
              /\ line[b] = "|"
              /\ \A k \in (j + 1)..(b - 1) : IsSpace(line[k])

\* context-utils.ts:76-84  the loop's variables; currentFile is <<>> when
\* it is null or the empty string
IndexStart ==
    [index |-> <<>>, currentFile |-> <<>>, fileStartLine |-> 0,
     fileLineCount |-> 0]

\* context-utils.ts:92-99 and 119-126  the file read so far is saved
SaveFile(st) ==
    IF st.currentFile # <<>> /\ st.fileLineCount > 0
    THEN [p \in DOMAIN st.index \cup {st.currentFile} |->
            IF p = st.currentFile
            THEN [path |-> st.currentFile,
                  startLine |-> st.fileStartLine,
                  endLine |-> st.fileStartLine + st.fileLineCount - 1,
                  lineCount |-> st.fileLineCount]
            ELSE st.index[p]]
    ELSE st.index

\* context-utils.ts:87-115  one turn of the loop
IndexLine(st, line) ==
    IF IsFileHeader(line)
    THEN [index |-> SaveFile(st), currentFile |-> HeaderPath(line),
          fileStartLine |-> 1, fileLineCount |-> 0]
    ELSE IF st.currentFile # <<>> /\ ~IsBlank(line) /\ IsNumberedLine(line)
    THEN [st EXCEPT !.fileLineCount = st.fileLineCount + 1]
    ELSE st

RECURSIVE IndexLines(_, _)
IndexLines(st, lines) ==
    IF lines = <<>> THEN st
    ELSE IndexLines(IndexLine(st, lines[1]), Tail(lines))

\* context-utils.ts:76-129
buildContextIndex(text) ==
    IF text = <<>> THEN <<>>
    ELSE SaveFile([IndexLines(IndexStart, SplitLines(text))
                      EXCEPT !.fileStartLine = 1])

(***************************************************************************)
(* SpecFetch: fetchRepoFiles and buildContextIndex on the files read       *)
(***************************************************************************)
\* bound: the number of files read
MaxFiles == 3

ContentX == <<"x">>
ContentXY == <<"x", "\n", "y">>
ContentNote == <<"a", "\n", "\n">> \o <<"N","O","T","E",":"," ","z">>

\* the reads: a path and what getLocalFileContent gave for it, a read
\* that threw and the content '' among them
FileReads ==
    {[path |-> <<"a",".","t","s">>, content |-> c] :
        c \in {ReadFailed, <<>>, ContentX, ContentXY, ContentNote}}
    \cup {[path |-> <<"b",".","t","s">>, content |-> c] :
        c \in {ContentX, ContentXY, ContentNote}}

\* a content of 4 lines of 72 characters: its numbered block is 80 tokens
Content80(c) == Join([i \in 1..4 |-> [k \in 1..72 |-> c]], <<"\n">>)
Scenario80 == <<[path |-> <<"a",".","t","s">>, content |-> Content80("q")],
                [path |-> <<"b",".","t","s">>, content |-> Content80("w")]>>

\* the token limits: the limit of the source and limits that the small
\* files above reach
TokenLimits == {0, 2, 7, MAX_CONTEXT_TOKENS}

FetchInputs ==
    {<<fs, max>> : fs \in UNION {[1..n -> FileReads] : n \in 0..MaxFiles},
                   max \in TokenLimits}
    \cup {<<Scenario80, 100>>}

InitFetch ==
    /\ \E in \in FetchInputs : reads = in[1] /\ maxTokens = in[2]
    /\ fileResults = <<>>
    /\ selInput = <<>>
    /\ context = <<>>
    /\ tokenCount = 0
    /\ ctxOp = "none"
    /\ contextIndex = <<>>
    /\ answer = <<>>
    /\ rawContext = <<>>
    /\ questionTokens = 0
    /\ historyTokens = 0
    /\ filesProcessed = 0
    /\ validation = NoValidation
    /\ CacheEmpty
    /\ SelectIdle
    /\ RunIdle

\* part_010:187  fetchRepoFiles reads the files it was given
ReadBatch ==
    /\ ctxOp = "none"
    /\ ctxOp' = "getLocalFileContentBatch"
    /\ fileResults' = getLocalFileContentBatch(reads)
    /\ UNCHANGED <<selInput, maxTokens, context, tokenCount, contextIndex,
                   answer, validation, rawContext>>
    /\ UNCHANGED <<questionTokens, historyTokens, reads, filesProcessed>>
    /\ UNCHANGED <<cacheVars, selVars, runVars>>

\* part_010:189-218  fetchRepoFiles from the read to the end of its loop
AssembleContext ==
    /\ ctxOp = "getLocalFileContentBatch"
    /\ ctxOp' = "assembled"
    /\ context' = AssembleLoop(<<>>, 0, fileResults, maxTokens).context
    /\ tokenCount' =
           AssembleLoop(<<>>, 0, fileResults, maxTokens).currentTokenCount
    /\ UNCHANGED <<selInput, fileResults, maxTokens, contextIndex, answer,
                   validation, rawContext>>
    /\ UNCHANGED <<questionTokens, historyTokens, reads, filesProcessed>>
    /\ UNCHANGED <<cacheVars, selVars, runVars>>

\* part_010:220-227  fetchRepoFiles from the end of its loop to its return
ReturnContext ==
    /\ ctxOp = "assembled"
    /\ ctxOp' = "fetchRepoFiles"
    /\ context' = FinishContext(context)
    /\ filesProcessed' = FilesProcessed(fileResults)
    /\ UNCHANGED <<selInput, fileResults, maxTokens, tokenCount,
                   contextIndex, answer,
                   validation, rawContext>>
    /\ UNCHANGED <<questionTokens, historyTokens, reads>>
    /\ UNCHANGED <<cacheVars, selVars, runVars>>

\* context-utils.ts:76-129  the index of the document returned
BuildIndex ==
    /\ ctxOp = "fetchRepoFiles"
    /\ ctxOp' = "buildContextIndex"
    /\ contextIndex' = buildContextIndex(context)
    /\ UNCHANGED <<selInput, fileResults, maxTokens, context, tokenCount,
                   answer,
                   validation, rawContext>>
    /\ UNCHANGED <<questionTokens, historyTokens, reads, filesProcessed>>
    /\ UNCHANGED <<cacheVars, selVars, runVars>>

NextFetch ==
    \/ ReadBatch
    \/ AssembleContext
    \/ ReturnContext
    \/ BuildIndex

SpecFetch == InitFetch /\ [][NextFetch]_vars


(***************************************************************************)
(* Properties of the context assembler                                     *)
(***************************************************************************)
\* C13: budget invariant: the token count of the whole document the loop
\* of fetchRepoFiles produces (file headers, numbered lines and any
\* truncation notice) does not exceed the token limit.
C13_DocumentWithinBudget ==
    ctxOp = "assembled" => countTokens(context) <= maxTokens

\* the files read that have content, in the order they were read
WithContent(fs) == SelectSeq(fs, LAMBDA f : HasContent(f.content))

\* the token cost of the numbered blocks of the first j files
RECURSIVE CostOfFirst(_, _)
CostOfFirst(fs, j) ==
    IF j = 0 THEN 0
    ELSE CostOfFirst(fs, j - 1) + countTokens(NumberedContent(fs[j].content))

\* the blocks of the first k files, whole, one after the other
RECURSIVE BlocksOfFirst(_, _)
BlocksOfFirst(fs, k) ==
    IF k = 0 THEN <<>>
    ELSE BlocksOfFirst(fs, k - 1)
             \o FileBlock(fs[k].path, NumberedContent(fs[k].content))

\* the files with content whose cost, added to that of the files before
\* them, is over the limit
OverBudget(fs, max) == {j \in 1..Len(fs) : CostOfFirst(fs, j) > max}

\* C14: file-granularity truncation: the document of the loop is made of
\* the whole blocks of a prefix of the files that have content, in their
\* order: all of them and no notice when none goes over the limit, else
\* those before the first that goes over it, then one truncation notice and
\* no later file, even one that would fit.  Two files of 80 tokens under a
\* limit of 100 give the block of the first, the notice, and no line of the
\* second.
C14_WholeFilesThenNotice ==
    ctxOp = "assembled" =>
        LET have == WithContent(fileResults)
            over == OverBudget(have, maxTokens)
        IN  /\ over = {} => context = BlocksOfFirst(have, Len(have))
            /\ over # {} =>
                  context = BlocksOfFirst(have, SetMin(over) - 1)
                                \o TruncationNotice(maxTokens)
            /\ (fileResults = Scenario80 /\ maxTokens = 100) =>
                  /\ context = FileBlock(Scenario80[1].path,
                                   NumberedContent(Scenario80[1].content))
                                   \o TruncationNotice(100)
                  /\ ~InSeq("w", context)

\* C14 witness: the first file with content fits, the second goes over the
\* limit and a third one would have fit: the document is the first block
\* and the notice
C14_Witness ==
    /\ ctxOp = "assembled"
    /\ LET have == WithContent(fileResults)
       IN  /\ Len(have) = 3
           /\ OverBudget(have, maxTokens) = {2, 3}
           /\ countTokens(NumberedContent(have[1].content))
                  + countTokens(NumberedContent(have[3].content)) <= maxTokens
           /\ context = FileBlock(have[1].path, NumberedContent(have[1].content))
                            \o TruncationNotice(maxTokens)


(***************************************************************************)
(* SpecNormalize: normalizeContext applied to documents made of lines      *)
(***************************************************************************)
\* the lines the documents are made of: headers (two spellings of one
\* path, another path, the empty path), blank lines, a numbered line, a
\* line of text and a NOTE: line
DocLines ==
    {<<"-","-","-"," ","F","I","L","E",":"," ","a"," ","-","-","-">>, <<"-",
        "-","-"," ","F","I","L","E",":"," "," ","a"," ","-","-","-">>, <<"-",
        "-","-"," ","F","I","L","E",":"," ","b"," ","-","-","-">>,
     <<"-","-","-"," ","F","I","L","E",":"," "," ","-","-","-">>, <<>>,
         <<" ">>, <<" "," "," ","1"," ","|"," ","x">>, <<"t","e","x","t">>,
         <<"N","O","T","E",":"," ","n">>}

\* bound: the number of lines of a document
MaxLines == 4

Documents ==
    {Join(ls, <<"\n">>) : ls \in UNION {[1..n -> DocLines] : n \in 0..MaxLines}}

InitNormalize ==
    /\ rawContext \in Documents
    /\ context = rawContext
    /\ questionTokens = 0
    /\ historyTokens = 0
    /\ reads = <<>>
    /\ filesProcessed = 0
    /\ selInput = <<>>
    /\ fileResults = <<>>
    /\ maxTokens = 0
    /\ tokenCount = 0
    /\ ctxOp = "none"
    /\ contextIndex = <<>>
    /\ answer = <<>>
    /\ validation = NoValidation
    /\ CacheEmpty
    /\ SelectIdle
    /\ RunIdle

\* context-utils.ts:19-71
Normalize ==
    /\ ctxOp = "none"
    /\ ctxOp' = "normalizeContext"
    /\ context' = normalizeContext(context)
    /\ UNCHANGED <<selInput, fileResults, maxTokens, tokenCount,
                   contextIndex, answer, validation, rawContext>>
    /\ UNCHANGED <<questionTokens, historyTokens, reads, filesProcessed>>
    /\ UNCHANGED <<cacheVars, selVars, runVars>>

\* context-utils.ts:19-71  normalizeContext applied to its own output
NormalizeAgain ==
    /\ ctxOp = "normalizeContext"
    /\ ctxOp' = "normalizeContext again"
    /\ context' = normalizeContext(context)
    /\ UNCHANGED <<selInput, fileResults, maxTokens, tokenCount,
                   contextIndex, answer, validation, rawContext>>
    /\ UNCHANGED <<questionTokens, historyTokens, reads, filesProcessed>>
    /\ UNCHANGED <<cacheVars, selVars, runVars>>

NextNormalize ==
    \/ Normalize
    \/ NormalizeAgain

SpecNormalize == InitNormalize /\ [][NextNormalize]_vars

\* the lines of a document; the empty document has none
LinesOf(text) == IF text = <<>> THEN <<>> ELSE SplitLines(text)

\* C15: normalizeContext is idempotent: applied to its own output it
\* returns that output.
C15_NormalizeIdempotent ==
    [][ctxOp' = "normalizeContext again" => context' = context]_vars

HasDuplicateHeader(lines) ==
    \E i, j \in 1..Len(lines) :
        /\ i < j
        /\ IsFileHeader(lines[i])
        /\ IsFileHeader(lines[j])
        /\ HeaderPath(lines[i]) = HeaderPath(lines[j])

HasBlankRun(lines) ==
    \E i \in 1..(Len(lines) - 1) : IsBlank(lines[i]) /\ IsBlank(lines[i + 1])

\* C15 witness: a document with a duplicate file block, text before its
\* first header and a NOTE: line was normalized to a different, non-empty
\* document, and that one was normalized again
C15_Witness ==
    /\ ctxOp = "normalizeContext again"
    /\ HasDuplicateHeader(LinesOf(rawContext))
    /\ ~IsFileHeader(LinesOf(rawContext)[1])
    /\ \E i \in 1..Len(LinesOf(rawContext)) : IsNoteLine(LinesOf(rawContext)[i])
    /\ context # rawContext
    /\ context # <<>>

\* C16: the output of normalizeContext has each file path in at most one
\* header, has no two consecutive blank lines and has no leading and no
\* trailing blank line.
C16_NormalizedShape ==
    ctxOp \in {"normalizeContext", "normalizeContext again"} =>
        LET lines == LinesOf(context)
        IN  /\ ~HasDuplicateHeader(lines)
            /\ ~HasBlankRun(lines)
            /\ lines # <<>> =>
                  ~IsBlank(lines[1]) /\ ~IsBlank(lines[Len(lines)])

\* C16 witness: a document that begins with a blank line was normalized,
\* and its output begins with a file header and has one blank line inside
C16_Witness ==
    /\ ctxOp = "normalizeContext"
    /\ rawContext # <<>>
    /\ IsBlank(LinesOf(rawContext)[1])
    /\ context # <<>>
    /\ IsFileHeader(LinesOf(context)[1])
    /\ \E i \in 1..Len(LinesOf(context)) : IsBlank(LinesOf(context)[i])


(***************************************************************************)
(* Properties of the document returned and its index                       *)
(***************************************************************************)
\* the number a numbered line begins with
LineNumberOf(line) ==
    LET first == SetMin({i \in 1..Len(line) : ~IsSpace(line[i])})
        last == SetMax({j \in first..Len(line) :
                           \A k \in first..j : IsDigit(line[k])})
    IN  ParseInt(SubSeq(line, first, last))

\* the header of the block the i-th line lies in, 0 when no header is
\* above it
BlockHeader(lines, i) ==
    LET above == {h \in 1..(i - 1) : IsFileHeader(lines[h])}
    IN  IF above = {} THEN 0 ELSE SetMax(above)

\* the numbered lines of the block that begins with the header at h
NumberedInBlock(lines, h) ==
    {i \in (h + 1)..Len(lines) :
        IsNumberedLine(lines[i]) /\ BlockHeader(lines, i) = h}

\* C17: index/document agreement: in the document fetchRepoFiles returns,
\* with the index buildContextIndex makes of it, every numbered line lies
\* in the block of a path that the index holds, its number is within
\* startLine..endLine of that path, and endLine is the number of numbered
\* lines of the block.
C17_IndexAgreesWithDocument ==
    ctxOp = "buildContextIndex" =>
        LET lines == LinesOf(context)
        IN  \A i \in 1..Len(lines) :
                IsNumberedLine(lines[i]) =>
                    LET h == BlockHeader(lines, i)
                        p == HeaderPath(lines[h])
                    IN  /\ h > 0
                        /\ p \in DOMAIN contextIndex
                        /\ contextIndex[p].startLine <= LineNumberOf(lines[i])
                        /\ LineNumberOf(lines[i]) <= contextIndex[p].endLine
                        /\ contextIndex[p].endLine
                               = Cardinality(NumberedInBlock(lines, h))


(***************************************************************************)
(* lib/context-utils.ts: validateLineNumbers                               *)
(***************************************************************************)
\* the regex class [^\]:]
IsPathChar(c) == c \notin {"]", ":"}

\* [^\]:]+ is greedy: the end of the longest run of path characters of s
\* from position from on; from - 1 when the run is empty
PathRunEnd(s, from) ==
    SetMin({k \in from..(Len(s) + 1) :
               k = Len(s) + 1 \/ ~IsPathChar(s[k])}) - 1

\* \d+ is greedy: the end of the longest run of digits of s from position
\* from on; from - 1 when the run is empty
DigitRunEnd(s, from) ==
    SetMin({k \in from..(Len(s) + 1) :
               k = Len(s) + 1 \/ ~IsDigit(s[k])}) - 1

CharAt(s, i) == IF i \in 1..Len(s) THEN s[i] ELSE ""

NoMatch == [found |-> FALSE, path |-> <<>>, start |-> <<>>, end |-> <<>>,
            next |-> 0]

\* context-utils.ts:156  /\[file:([^\]:]+):(\d+)(?:-(\d+))?\]/ matched at
\* position i of s: the groups (the third one is <<>> when it is absent)
\* and the position after the match
MatchFileRef(s, i) ==
    LET pathFrom == i + 6
        pathTo == PathRunEnd(s, pathFrom)
        startFrom == pathTo + 2
        startTo == DigitRunEnd(s, startFrom)
        endFrom == startTo + 2
        endTo == DigitRunEnd(s, endFrom)
    IN  IF /\ i + 5 <= Len(s)
           /\ SubSeq(s, i, i + 5) = <<"[","f","i","l","e",":">>
           /\ pathTo >= pathFrom
           /\ CharAt(s, pathTo + 1) = ":"
           /\ startTo >= startFrom
        THEN IF /\ CharAt(s, startTo + 1) = "-"
                /\ endTo >= endFrom
                /\ CharAt(s, endTo + 1) = "]"
             THEN [found |-> TRUE, path |-> SubSeq(s, pathFrom, pathTo),
                   start |-> SubSeq(s, startFrom, startTo),
                   end |-> SubSeq(s, endFrom, endTo), next |-> endTo + 2]
             ELSE IF CharAt(s, startTo + 1) = "]"
             THEN [found |-> TRUE, path |-> SubSeq(s, pathFrom, pathTo),
                   start |-> SubSeq(s, startFrom, startTo),
                   end |-> <<>>, next |-> startTo + 2]
             ELSE NoMatch
        ELSE NoMatch

\* context-utils.ts:159  fileRefRegex.exec(answer) from lastIndex on: the
\* matches of the global regex, from left to right
RECURSIVE FileRefs(_, _)
FileRefs(s, lastIndex) ==
    LET hits == {i \in lastIndex..Len(s) : MatchFileRef(s, i).found}
    IN  IF hits = {} THEN <<>>
        ELSE <<MatchFileRef(s, SetMin(hits))>>
                 \o FileRefs(s, MatchFileRef(s, SetMin(hits)).next)

\* the properties every object inherits: contextIndex[filePath] is not
\* undefined for these names, whatever the index holds
ObjectPrototypeKeys ==
    {<<"c","o","n","s","t","r","u","c","t","o","r">>, <<"t","o","S","t","r",
        "i","n","g">>, <<"v","a","l","u","e","O","f">>, <<"h","a","s","O",
        "w","n","P","r","o","p","e","r","t","y">>,
     <<"i","s","P","r","o","t","o","t","y","p","e","O","f">>, <<"p","r","o",
         "p","e","r","t","y","I","s","E","n","u","m","e","r","a","b","l",
         "e">>, <<"t","o","L","o","c","a","l","e","S","t","r","i","n","g">>,
     <<"_","_","p","r","o","t","o","_","_">>}

\* context-utils.ts:160-179  the errors of one reference
FileRefErrors(match, index) ==
    LET filePath == Trim(match.path)
        startLine == ParseInt(match.start)
        endLine == IF match.end # <<>> THEN ParseInt(match.end) ELSE startLine
    IN  IF filePath \in DOMAIN index
        THEN (IF startLine < index[filePath].startLine
                    \/ startLine > index[filePath].endLine
              THEN <<[kind |-> "line out of range", path |-> filePath,
                      start |-> startLine, end |-> startLine]>>
              ELSE <<>>)
             \o (IF endLine # 0 /\ (endLine < index[filePath].startLine
                                       \/ endLine > index[filePath].endLine)
                 THEN <<[kind |-> "line range out of range",
                         path |-> filePath, start |-> startLine,
                         end |-> endLine]>>
                 ELSE <<>>)
        ELSE IF filePath \in ObjectPrototypeKeys
        THEN <<>>
        ELSE <<[kind |-> "file not found", path |-> filePath,
                start |-> startLine, end |-> endLine]>>

RECURSIVE AllFileRefErrors(_, _)
AllFileRefErrors(matches, index) ==
    IF matches = <<>> THEN <<>>
    ELSE FileRefErrors(matches[1], index)
             \o AllFileRefErrors(Tail(matches), index)

\* context-utils.ts:149-186
validateLineNumbers(text, index) ==
    LET errors == AllFileRefErrors(FileRefs(text, 1), index)
    IN  [valid |-> errors = <<>>, errors |-> errors]


\* the indexes validated against: src/x.ts spanning lines 1-10, and no file
IndexX ==
    [p \in {<<"s","r","c","/","x",".","t","s">>} |->
        [path |-> p, startLine |-> 1, endLine |-> 10, lineCount |-> 10]]

ValidateIndexes == {IndexX, <<>>}

CitedPaths == {<<"s","r","c","/","x",".","t","s">>, <<" ","s","r","c","/",
    "x",".","t","s"," ">>, <<"s","r","c","/","m","i","s","s","i","n","g",".",
    "t","s">>}

CitedLines ==
    {<<"0">>, <<"1">>, <<"1","0">>, <<"1","1">>, <<"9","9","9">>, <<"1","-",
        "1","0">>, <<"1","-","1","1">>, <<"5","-","0">>, <<"0","-","1">>,
     <<"1","1","-","5">>}

\* the pieces an answer is made of: well-formed citations, a citation of a
\* name every object inherits, and text the regex does not match
AnswerPieces ==
    {<<"[","f","i","l","e",":">> \o p \o <<":">> \o l
        \o <<"]">> : p \in CitedPaths, l \in CitedLines}
        \cup {<<"[","f","i","l","e",":","c","o","n","s","t","r","u","c","t",
            "o","r",":","5","]">>, <<"[","f","i","l","e",":","s","r","c","/",
            "x",".","t","s",":","x","]">>,
              <<"[","f","i","l","e",":","s","r","c","/","x",".","t","s",":",
                  "1","-","]">>, <<"s","e","e"," ">>}

MaxCitations == 2

RECURSIVE AnswersOf(_)
AnswersOf(n) ==
    IF n = 0 THEN {<<>>}
    ELSE AnswersOf(n - 1)
             \cup {a \o p : a \in AnswersOf(n - 1), p \in AnswerPieces}

InitValidate ==
    /\ CacheEmpty /\ SelectIdle /\ RunIdle
    /\ selInput = <<>> /\ fileResults = <<>> /\ maxTokens = 0
    /\ context = <<>> /\ tokenCount = 0 /\ rawContext = <<>>
    /\ questionTokens = 0 /\ historyTokens = 0
    /\ reads = <<>>
    /\ filesProcessed = 0
    /\ ctxOp = "none"
    /\ validation = NoValidation
    /\ answer \in AnswersOf(MaxCitations)
    /\ contextIndex \in ValidateIndexes

Validate ==
    /\ ctxOp = "none"
    /\ ctxOp' = "validateLineNumbers"
    /\ validation' = validateLineNumbers(answer, contextIndex)
    /\ UNCHANGED <<cacheVars, selVars, runVars, selInput, fileResults,
                   maxTokens, context, tokenCount, contextIndex, answer,
                   rawContext>>
    /\ UNCHANGED <<questionTokens, historyTokens, reads, filesProcessed>>

\* a caller that reads the result leaves it as it is
ReadValidation ==
    /\ ctxOp = "validateLineNumbers"
    /\ ctxOp' = "validated"
    /\ UNCHANGED <<cacheVars, selVars, runVars, selInput, fileResults,
                   maxTokens, context, tokenCount, contextIndex, answer,
                   validation, rawContext>>
    /\ UNCHANGED <<questionTokens, historyTokens, reads, filesProcessed>>

NextValidate == Validate \/ ReadValidation

SpecValidate == InitValidate /\ [][NextValidate]_vars

Citations == FileRefs(answer, 1)

CitedPath(c) == Trim(c.path)

CitedStart(c) == ParseInt(c.start)

CitedEnd(c) == IF c.end # <<>> THEN ParseInt(c.end) ELSE ParseInt(c.start)

InRange(n, info) == info.startLine <= n /\ n <= info.endLine

CitationGood(c) ==
    /\ CitedPath(c) \in DOMAIN contextIndex
    /\ InRange(CitedStart(c), contextIndex[CitedPath(c)])
    /\ InRange(CitedEnd(c), contextIndex[CitedPath(c)])

\* C18: after validateLineNumbers(answer, index), valid is true if and only
\* if every citation of the answer names a path of the index and has start
\* and end inside the range of that path; a citation of an absent path is
\* reported as file not found and one with start or end outside the range
\* as out of range
C18_ValidIffAllCitationsGood ==
    ctxOp = "validateLineNumbers" =>
        /\ validation.valid
               <=> \A k \in 1..Len(Citations) : CitationGood(Citations[k])
        /\ \A k \in 1..Len(Citations) :
               LET c == Citations[k]
               IN  IF CitedPath(c) \notin DOMAIN contextIndex
                   THEN \E e \in 1..Len(validation.errors) :
                            /\ validation.errors[e].kind = "file not found"
                            /\ validation.errors[e].path = CitedPath(c)
                   ELSE ~CitationGood(c) =>
                            \E e \in 1..Len(validation.errors) :
                                /\ validation.errors[e].kind
                                       \in {"line out of range",
                                            "line range out of range"}
                                /\ validation.errors[e].path = CitedPath(c)


(***************************************************************************)
(* SpecRace: concurrent executions of analyzeFileSelection for one query   *)
(***************************************************************************)
\* the tree of the second repository: no README.md and no package.json
SourcesTree == <<LoginTs, SessionTs>>

\* two spellings of one query for one repository, and the query for
\* another repository: query, tree, owner, repo
RaceCalls == {<<QLogin, PipeTree, Owner1, Repo1>>,
              <<QLoud, PipeTree, Owner1, Repo1>>,
              <<QLogin, SourcesTree, Owner1, Repo2>>}

NextRace ==
    \/ \E p \in Procs, c \in RaceCalls :
          analyzeRepoFilesFallback(p, c[1], c[2], c[3], c[4])
    \/ \E p \in Procs : AfterLookup(p)
    \/ \E p \in Procs, files \in AIReplies : AIReply(p, files)
    \/ \E p \in Procs : AIFails(p)
    \/ \E p \in Procs : ReturnStored(p)
    \/ \E p \in Procs : Finish(p)
    \/ Tick(TTL_QUERY)

SpecRace == Init /\ [][NextRace]_vars

\* execution p stores its selection in this step
Stores(p) == pc[p] = "ai" /\ pc'[p] = "stored"

\* the entries of the keys other than key are what they were
OthersKept(key) ==
    /\ (DOMAIN cache') \ {key} = (DOMAIN cache) \ {key}
    /\ \A k \in (DOMAIN cache) \ {key} : cache'[k] = cache[k]

\* C19: when executions of analyzeFileSelection for the same owner, repo
\* and normalized query interleave, every store leaves under the key of
\* the query the list of the execution that stores (the last writer wins)
\* and changes the entry of no other key; a step that is not a store
\* changes no entry; and each execution returns the list it computed,
\* whatever the cache holds by then.
C19_Step ==
    /\ \A p \in Procs :
          /\ Stores(p) =>
                /\ LookupKey(call[p]) \in DOMAIN cache'
                /\ cache'[LookupKey(call[p])].data = result'[p]
                /\ OthersKept(LookupKey(call[p]))
                /\ \A q \in Procs \ {p} : result'[q] = result[q]
          /\ (pc[p] = "stored" /\ pc'[p] = "returned") =>
                /\ result'[p] = result[p]
                /\ cache' = cache
    /\ (\A p \in Procs : ~Stores(p)) =>
          \A k \in DOMAIN cache' : k \in DOMAIN cache /\ cache'[k] = cache[k]
C19_LastWriterWins == [][C19_Step]_vars

\* C19 witness: with no time passed, two executions asked the same query
\* in two spellings, both missed and both stored; they returned different
\* lists, the cache holds the list of one of them under the one key of the
\* query, and the entry of the other repository is still there
C19_Witness ==
    \E p, q \in Procs :
        /\ p # q
        /\ ticks = 0
        /\ pc[p] = "returned" /\ pc[q] = "returned"
        /\ via[p] = "ai" /\ via[q] = "ai"
        /\ InSeq("cacheQuerySelection", used[p])
        /\ InSeq("cacheQuerySelection", used[q])
        /\ call[p].query # call[q].query
        /\ LookupKey(call[p]) = LookupKey(call[q])
        /\ result[p] # result[q]
        /\ LookupKey(call[p]) \in DOMAIN cache
        /\ cache[LookupKey(call[p])].data = result[q]
        /\ origin[LookupKey(call[p])].args[3] = sanitizeUserInput(call[q].query)
        /\ \E k \in DOMAIN cache : k # LookupKey(call[p])


\* the entries of tree that are README.md or package.json, in tree order
SafeDefaultsOf(tree) ==
    AtPositions(tree, {i \in 1..Len(tree) :
                          tree[i] \in {<<"R","E","A","D","M","E",".","m",
                              "d">>, <<"p","a","c","k","a","g","e",".","j",
                              "s","o","n">>}})

\* execution p leaves the AI selection through the catch in this step
FallsBack(p) == pc[p] = "ai" /\ pc'[p] = "returned" /\ via'[p] = "fallback"

\* C20: analyzeRepoFiles whose enhancedFileSelection throws goes on as
\* analyzeFileSelection does: it looks the cache up or asks the AI; when
\* the AI selection throws or its reply does not parse, the execution
\* returns exactly the entries of its tree equal to README.md or
\* package.json, in tree order, and writes nothing to the cache; an empty
\* selection is returned without a store; every way out of the AI
\* selection returns a list; no entry of the cache holds an empty list.
C20_Step ==
    /\ \A p \in Procs :
          /\ (pc[p] = "idle" /\ pc'[p] # "idle") =>
                /\ call'[p].fn = "analyzeRepoFiles"
                /\ used'[p][1] = "mentionedFiles"
                /\ pc'[p] \in {"returned", "lookup", "ai"}
                /\ pc'[p] = "returned" => via'[p] = "bypass"
          /\ FallsBack(p) =>
                /\ result'[p] = SafeDefaultsOf(call[p].tree)
                /\ cache' = cache
                /\ ~InSeq("cacheQuerySelection", used'[p])
          /\ (pc[p] = "ai" /\ pc'[p] # "ai") =>
                /\ pc'[p] \in {"stored", "returned"}
                /\ result'[p] = <<>> => (pc'[p] = "returned" /\ cache' = cache)
    /\ \A k \in DOMAIN cache' : cache'[k].data # <<>>
C20_FallbackNeverCached == [][C20_Step]_vars

\* C20 witness: two executions left the AI selection through the catch,
\* one with README.md and package.json of its tree and one with the empty
\* list of a tree that has neither, and the cache holds no entry
C20_Witness ==
    \E p, q \in Procs :
        /\ pc[p] = "returned" /\ via[p] = "fallback"
        /\ pc[q] = "returned" /\ via[q] = "fallback"
        /\ Len(result[p]) = 2
        /\ result[q] = <<>>
        /\ InSeq("getCachedQuerySelection", used[p])
        /\ DOMAIN cache = {}


(***************************************************************************)
(* The bypass and the shared cache                                         *)
(***************************************************************************)
\* execution p enters analyzeFileSelection and takes the bypass in this step
TakesBypass(p) == pc[p] = "idle" /\ pc'[p] = "returned" /\ via'[p] = "bypass"

\* the entries of the cache that have expired
ExpiredKeys == {k \in DOMAIN cache : cache[k].expires < now}

\* C21: a call of analyzeFileSelection that takes the bypass reads no cache
\* (no expiry sweep runs), writes none and asks no AI: the only component
\* it uses is the search for mentioned files, and the cache map and the
\* record of its writers are after the step what they were before it.
C21_Step ==
    \A p \in Procs :
        TakesBypass(p) =>
            /\ cache' = cache
            /\ origin' = origin
            /\ returned' = Void
            /\ used'[p] = <<"mentionedFiles">>
            /\ result'[p] = BypassSelection(call'[p].query, call'[p].tree)
C21_BypassLeavesCache == [][C21_Step]_vars

\* C21 witness: an execution given owner and repo has taken the bypass
\* while the cache held an expired entry, and the entry is still there
C21_Witness ==
    \E p \in Procs :
        /\ pc[p] = "returned"
        /\ via[p] = "bypass"
        /\ Present(call[p].owner) /\ Present(call[p].repo)
        /\ used[p] = <<"mentionedFiles">>
        /\ ExpiredKeys # {}
        /\ \A q \in Procs \ {p} : pc[q] = "idle"


\* the header that opens the block line i of lines is in; 0 before the
\* first header
HeaderBefore(lines, i) ==
    SetMax({0} \cup {h \in 1..i : IsFileHeader(lines[h])})

\* line i of lines is the header of a path that an earlier header names
RepeatedHeader(lines, i) ==
    /\ IsFileHeader(lines[i])
    /\ \E j \in 1..(i - 1) :
          /\ IsFileHeader(lines[j])
          /\ HeaderPath(lines[j]) = HeaderPath(lines[i])

\* line i of lines is a repeated header or lies between a repeated header
\* and the next header or the end
InDuplicateBlock(lines, i) ==
    /\ HeaderBefore(lines, i) > 0
    /\ RepeatedHeader(lines, HeaderBefore(lines, i))

\* the document without its duplicate blocks
WithoutDuplicateBlocks(text) ==
    LET lines == LinesOf(text)
    IN  Join(AtPositions(lines, {i \in 1..Len(lines) :
                                    ~InDuplicateBlock(lines, i)}), <<"\n">>)

\* C22: duplicate blocks are dropped whole: the output of normalizeContext
\* is what it is for the document without the repeated headers and the
\* lines between each of them and the next header or the end, whatever
\* those lines contain.
C22_DuplicateBlocksDropped ==
    ctxOp = "normalizeContext" =>
        context = normalizeContext(WithoutDuplicateBlocks(rawContext))


\* the paths expandWithNeighbors added to the selection
AddedPaths == {selected[j] : j \in 1..Len(selected)}
                  \ {selInput[i] : i \in 1..Len(selInput)}

\* p is nested more than one level deep
NestedDeep(p) == Len(SplitSlash(p)) > 2

\* the directory above the directory of p
GrandparentDir(p) ==
    JoinSlash(SubSeq(SplitSlash(p), 1, Len(SplitSlash(p)) - 2))

\* f is a file of the directory p is in
SiblingOf(f, p) == DirName(p) # <<>> /\ DirName(f) = DirName(p) /\ f # p

\* f is a code file of the directory above the directory of p
GrandparentFileOf(f, p) ==
    /\ NestedDeep(p)
    /\ DirName(f) = GrandparentDir(p)
    /\ HasExtension(f, NeighborExts)

\* C23: every path expandWithNeighbors adds is a path of the tree that was
\* not of the selection and is, for some selected path p, a file of p's
\* own directory or, when p is nested more than one level deep, a code
\* file of p's grandparent directory; of each directory at most 3 files
\* are added for each selected path in it and 2 for each selected path it
\* is the grandparent directory of; so the result has at most 6 times as
\* many paths as the selection.
C23_NeighbourLocality ==
    applied = "expandWithNeighbors" =>
        /\ \A f \in AddedPaths :
              /\ InSeq(f, selTree)
              /\ \E i \in 1..Len(selInput) :
                    SiblingOf(f, selInput[i]) \/ GrandparentFileOf(f, selInput[i])
        /\ \A f \in AddedPaths :
              Cardinality({g \in AddedPaths : DirName(g) = DirName(f)})
                  <= MaxSiblings
                         * Cardinality({i \in 1..Len(selInput) :
                               DirName(selInput[i]) = DirName(f)})
                     + MaxParentFiles
                         * Cardinality({i \in 1..Len(selInput) :
                               /\ NestedDeep(selInput[i])
                               /\ GrandparentDir(selInput[i]) = DirName(f)})
        /\ Len(selected) <= 6 * Len(selInput)


(***************************************************************************)
(* lib/open-ai.ts: the token limit check of answerWithContext and          *)
(* answerWithContextStream                                                 *)
(***************************************************************************)
MAX_TOTAL_TOKENS == 128000
EstimatedSystemPromptTokens == 2000
SafetyBufferTokens == 5000

\* open-ai.ts:177  availableContextTokens
AvailableContextTokens(qTokens, hTokens) ==
    MAX_TOTAL_TOKENS - qTokens - hTokens - EstimatedSystemPromptTokens
        - SafetyBufferTokens

\* open-ai.ts:173  totalTokens
TotalTokens(qTokens, hTokens, text) ==
    qTokens + hTokens + countTokens(text) + EstimatedSystemPromptTokens

\* open-ai.ts:188  the notice answerWithContext puts at the cut
TruncatedNote(available, contextTokens) ==
    <<"\n">> \o <<"-","-","-"," ","N","O","T","E",":"," ","C","o","n","t",
        "e","x","t"," ","t","r","u","n","c","a","t","e","d"," ","d","u","e",
        " ","t","o"," ","t","o","k","e","n"," ","l","i","m","i","t"," ","(">>
        \o NumberToString(available) \o <<" ","t","o","k","e","n","s"," ",
            "a","v","a","i","l","a","b","l","e",","," ">>
        \o NumberToString(contextTokens) \o <<" ","t","o","k","e","n","s",
            " ","i","n"," ","o","r","i","g","i","n","a","l",")"," ","-","-",
            "-">>
        \o <<"\n">>

\* open-ai.ts:736  the notice answerWithContextStream puts at the cut
TruncatedNoteStream ==
    <<"\n">> \o <<"-","-","-"," ","N","O","T","E",":"," ","C","o","n","t",
        "e","x","t"," ","t","r","u","n","c","a","t","e","d"," ","d","u","e",
        " ","t","o"," ","t","o","k","e","n"," ","l","i","m","i","t"," ","-",
        "-","-">>
        \o <<"\n">>

\* open-ai.ts:198, 745
MinimalContext ==
    <<"-","-","-"," ","N","O","T","E",":"," ","C","o","n","t","e","x","t",
        " ","t","o","o"," ","l","a","r","g","e",","," ","u","s","i","n","g",
        " ","m","i","n","i","m","a","l"," ","c","o","n","t","e","x","t"," ",
        "-","-","-">> \o <<"\n">>

\* the broken loop: the line is added before the budget is looked at
RECURSIVE TruncateLinesLate(_, _, _, _, _)
TruncateLinesLate(truncatedContext, currentTokens, contextLines, available, note) ==
    IF contextLines = <<>> THEN truncatedContext
    ELSE LET line == contextLines[1]
             lineTokens == countTokens(line \o <<"\n">>)
         IN  IF currentTokens > available
             THEN truncatedContext \o note
             ELSE TruncateLinesLate(truncatedContext \o line \o <<"\n">>,
                                    currentTokens + lineTokens,
                                    Tail(contextLines), available, note)

\* open-ai.ts:184-193, 732-741  the loop over the lines of the context
RECURSIVE TruncateLines(_, _, _, _, _)
TruncateLines(truncatedContext, currentTokens, contextLines, available, note) ==
    IF contextLines = <<>> THEN truncatedContext
    ELSE LET line == contextLines[1]
             lineTokens == countTokens(line \o <<"\n">>)
         IN  IF currentTokens + lineTokens > available
             THEN truncatedContext \o note
             ELSE TruncateLines(truncatedContext \o line \o <<"\n">>,
                                currentTokens + lineTokens,
                                Tail(contextLines), available, note)

\* open-ai.ts:167-200, 717-747  the context that goes into the prompt
CheckedContext(text, qTokens, hTokens, note) ==
    IF TotalTokens(qTokens, hTokens, text) > MAX_TOTAL_TOKENS
    THEN IF AvailableContextTokens(qTokens, hTokens) > 0
         THEN TruncateLines(<<>>, 0, SplitLines(text),
                            AvailableContextTokens(qTokens, hTokens), note)
         ELSE MinimalContext
    ELSE text

(***************************************************************************)
(* SpecAnswer: a context is fetched, indexed and given, with its index, to *)
(* answerWithContext or answerWithContextStream                            *)
(***************************************************************************)
\* bound: the length of the long line of big.ts
LongLineChars == 20000

ContentLong == <<"k", "\n">> \o [i \in 1..LongLineChars |-> "x"]

\* the files read: two small files and one of more than 5000 tokens
AnswerReads ==
    {[path |-> <<"a",".","t","s">>, content |-> ContentXY],
     [path |-> <<"b",".","t","s">>, content |-> ContentX],
     [path |-> <<"b","i","g",".","t","s">>, content |-> ContentLong]}

\* the lists of distinct files
AnswerFileLists ==
    {fs \in UNION {[1..n -> AnswerReads] : n \in 0..3} :
        \A i, j \in 1..Len(fs) : i # j => fs[i] # fs[j]}

\* the token counts of the question, which sanitizeUserInput cuts at 10000
\* characters, and of the history, whose length nothing bounds
QuestionTokens == {10, 2500}
HistoryTokens == {0, 118470, 118485, 118492, 118496, 118500, 124000}

InitAnswer ==
    /\ reads \in AnswerFileLists
    /\ fileResults = <<>>
    /\ maxTokens = MAX_CONTEXT_TOKENS
    /\ selInput = <<>>
    /\ context = <<>>
    /\ tokenCount = 0
    /\ ctxOp = "none"
    /\ contextIndex = <<>>
    /\ answer = <<>>
    /\ rawContext = <<>>
    /\ questionTokens = 0
    /\ historyTokens = 0
    /\ filesProcessed = 0
    /\ validation = NoValidation
    /\ CacheEmpty
    /\ SelectIdle
    /\ RunIdle

\* open-ai.ts:133-200  answerWithContext is given the document, its index
\* and a question and a history of qTokens and hTokens tokens
AnswerWithContext ==
    /\ ctxOp = "buildContextIndex"
    /\ ctxOp' = "answerWithContext"
    /\ \E qTokens \in QuestionTokens, hTokens \in HistoryTokens :
          /\ questionTokens' = qTokens
          /\ historyTokens' = hTokens
          /\ context' = CheckedContext(context, qTokens, hTokens,
                            TruncatedNote(
                                AvailableContextTokens(qTokens, hTokens),
                                countTokens(context)))
    /\ rawContext' = context
    /\ UNCHANGED <<selInput, fileResults, maxTokens, tokenCount,
                   contextIndex, answer, validation>>
    /\ UNCHANGED <<reads, filesProcessed>>
    /\ UNCHANGED <<cacheVars, selVars, runVars>>

\* open-ai.ts:685-747  answerWithContextStream, given the same
AnswerWithContextStream ==
    /\ ctxOp = "buildContextIndex"
    /\ ctxOp' = "answerWithContextStream"
    /\ \E qTokens \in QuestionTokens, hTokens \in HistoryTokens :
          /\ questionTokens' = qTokens
          /\ historyTokens' = hTokens
          /\ context' = CheckedContext(context, qTokens, hTokens,
                                       TruncatedNoteStream)
    /\ rawContext' = context
    /\ UNCHANGED <<selInput, fileResults, maxTokens, tokenCount,
                   contextIndex, answer, validation>>
    /\ UNCHANGED <<reads, filesProcessed>>
    /\ UNCHANGED <<cacheVars, selVars, runVars>>

NextAnswer ==
    \/ ReadBatch
    \/ AssembleContext
    \/ ReturnContext
    \/ BuildIndex
    \/ AnswerWithContext
    \/ AnswerWithContextStream

SpecAnswer == InitAnswer /\ [][NextAnswer]_vars

\* the prompt has been made
Prompted == ctxOp \in {"answerWithContext", "answerWithContextStream"}


\* the numbers of the numbered lines of the block that begins at h
NumbersInBlock(lines, h) ==
    {LineNumberOf(lines[i]) : i \in NumberedInBlock(lines, h)}

\* C24: the index formatted into the prompt agrees with the context placed
\* in the same prompt: every path the index lists has a block in that
\* context whose numbered lines are exactly startLine..endLine of the path,
\* also when the token limit check has shortened the context after the
\* index was built.
C24_PromptIndexAgrees ==
    Prompted =>
        LET lines == LinesOf(context)
        IN  \A p \in DOMAIN contextIndex :
                \E h \in 1..Len(lines) :
                    /\ IsFileHeader(lines[h])
                    /\ HeaderPath(lines[h]) = p
                    /\ NumbersInBlock(lines, h)
                           = contextIndex[p].startLine..contextIndex[p].endLine

\* the first n lines of lines, each with its line break
RECURSIVE KeptText(_, _)
KeptText(lines, n) ==
    IF n = 0 THEN <<>> ELSE KeptText(lines, n - 1) \o lines[n] \o <<"\n">>

\* the summed token cost of the first n lines of lines
RECURSIVE KeptCost(_, _)
KeptCost(lines, n) ==
    IF n = 0 THEN 0
    ELSE KeptCost(lines, n - 1) + countTokens(lines[n] \o <<"\n">>)

\* the notice of the function that made the prompt
NoticeOf(op, available, contextTokens) ==
    IF op = "answerWithContext" THEN TruncatedNote(available, contextTokens)
    ELSE TruncatedNoteStream

\* the budget of the prompt made: 128000 less the question, the history,
\* 2000 and 5000
PromptAvailable == 128000 - questionTokens - historyTokens - 2000 - 5000

\* the prompt made is over the limit
PromptOver ==
    questionTokens + historyTokens + countTokens(rawContext) + 2000 > 128000

BatchRead == ctxOp # "none"

\* the paths whose every result is without content
PathsWithoutContent ==
    {fileResults[i].path : i \in 1..Len(fileResults)}
        \ {WithContent(fileResults)[i].path :
               i \in 1..Len(WithContent(fileResults))}

\* C26: a path whose read fails or gives no content is skipped silently:
\* the batch has one result for each path asked for, in the order asked,
\* with content null where the read threw; the document and the token
\* total of fetchRepoFiles are those of the results with content alone, no
\* header of a path without content is in the document returned, and
\* filesProcessed is the number of results with content.
C26_SkippedSilently ==
    /\ BatchRead =>
          /\ Len(fileResults) = Len(reads)
          /\ \A i \in 1..Len(reads) :
                /\ fileResults[i].path = reads[i].path
                /\ reads[i].content = ReadFailed
                       => fileResults[i].content = Null
                /\ reads[i].content # ReadFailed
                       => fileResults[i].content = reads[i].content
    /\ ctxOp = "assembled" =>
          /\ context = AssembleLoop(<<>>, 0, WithContent(fileResults),
                                    maxTokens).context
          /\ tokenCount = AssembleLoop(<<>>, 0, WithContent(fileResults),
                                       maxTokens).currentTokenCount
    /\ ctxOp = "fetchRepoFiles" =>
          /\ \A i \in 1..Len(LinesOf(context)) :
                IsFileHeader(LinesOf(context)[i])
                    => HeaderPath(LinesOf(context)[i])
                           \notin PathsWithoutContent
          /\ filesProcessed
                 = Cardinality({i \in 1..Len(fileResults) :
                                   HasContent(fileResults[i].content)})

\* C26 witness: fetchRepoFiles returned after a read that threw and a read
\* of '' were followed by a file with content, whose block is in the
\* document
C26_Witness ==
    /\ ctxOp = "fetchRepoFiles"
    /\ Len(reads) = 3
    /\ reads[1].content = ReadFailed
    /\ reads[2].content = <<>>
    /\ reads[3].path = <<"b",".","t","s">>
    /\ HasContent(reads[3].content)
    /\ filesProcessed = 1
    /\ \E i \in 1..Len(LinesOf(context)) :
          /\ IsFileHeader(LinesOf(context)[i])
          /\ HeaderPath(LinesOf(context)[i]) = <<"b",".","t","s">>

\* C29: when no file asked for gives content (no file asked for, or every
\* read threw or gave ''), fetchRepoFiles returns the text
\* 'No specific files were selected.' as its context, with
\* filesProcessed = 0.
C29_PlaceholderReturned ==
    (ctxOp = "fetchRepoFiles" /\ WithContent(fileResults) = <<>>)
        => context = NoFilesSelected /\ filesProcessed = 0

\* the part of C29 about filesProcessed
C29_NothingProcessed ==
    (ctxOp = "fetchRepoFiles" /\ WithContent(fileResults) = <<>>)
        => filesProcessed = 0


(***************************************************************************)
(* clearRepoCache and the sweep of expired entries                         *)
(***************************************************************************)
\* the entry of key k was stored for the repository owner/repo: by a store
\* of the file, repo-metadata, tree or query tier with these two arguments
BelongsTo(k, owner, repo) ==
    /\ origin[k].op \in {"cacheFile", "cacheRepoMetadata", "cacheFileTree",
                         "cacheQuerySelection"}
    /\ SubSeq(origin[k].args, 1, 2) = <<owner, repo>>

\* a call of clearRepoCache removes every entry of its repository
C27_OwnRemovedStep ==
    returned'.op = "clearRepoCache" =>
        \A k \in DOMAIN cache :
            BelongsTo(k, returned'.args[1], returned'.args[2])
                => k \notin DOMAIN cache'

\* a call of clearRepoCache leaves every other entry as it is
C27_OthersKeptStep ==
    returned'.op = "clearRepoCache" =>
        \A k \in DOMAIN cache :
            ~BelongsTo(k, returned'.args[1], returned'.args[2])
                => k \in DOMAIN cache' /\ cache'[k] = cache[k]

C27_OwnRemoved == [][C27_OwnRemovedStep]_vars

\* C27: clearRepoCache(owner, repo) removes every entry of that repository
\* (file, repo-metadata, tree and query entries) and leaves every entry of
\* any other repository or of a profile in the cache, with its value and
\* its expiry unchanged.
C27_ClearsOnlyItsRepository ==
    [][C27_OwnRemovedStep /\ C27_OthersKeptStep]_vars

\* the key a store writes, from the record of the store
KeyOfStore(w) ==
    CASE w.op = "cacheFile" ->
            FileKey(w.args[1], w.args[2], w.args[3], w.args[4])
      [] w.op = "cacheRepoMetadata" -> RepoKey(w.args[1], w.args[2])
      [] w.op = "cacheProfileData" -> ProfileKey(w.args[1])
      [] w.op = "cacheFileTree" -> TreeKey(w.args[1], w.args[2], w.args[3])
      [] w.op = "cacheQuerySelection" ->
            QueryKey(w.args[1], w.args[2], w.args[3])
      [] OTHER -> <<>>

\* the entries of c whose expiry is earlier than t
Expired(c, t) == {k \in DOMAIN c : c[k].expires < t}

\* a read or getCacheStats removes the expired entries, all of them and
\* nothing else, before it answers
C28_SweepStep ==
    returned'.op \in ReadOps \cup {"getCacheStats"} =>
        /\ DOMAIN cache' = (DOMAIN cache) \ Expired(cache, now)
        /\ \A k \in DOMAIN cache' : cache'[k] = cache[k]
        /\ Expired(cache', now') = {}
        /\ returned'.evicted = Expired(cache, now)
        /\ returned'.op = "getCacheStats"
               => returned'.keys = Cardinality(DOMAIN cache')

\* a step that returns nothing and is no clearRepoCache, a store or the
\* clock, removes no entry and changes at most the entry of the key of the
\* store, whatever has expired
C28_StoreStep ==
    returned' = Void =>
        /\ DOMAIN cache \subseteq DOMAIN cache'
        /\ \A k \in DOMAIN cache' :
              \/ k \in DOMAIN cache /\ cache'[k] = cache[k]
              \/ /\ origin'[k].at = now
                 /\ KeyOfStore(origin'[k]) = k
                 /\ \A x \in (DOMAIN cache') \ {k} :
                       x \in DOMAIN cache /\ cache'[x] = cache[x]

\* C28: every cache read and getCacheStats first removes from the Map all
\* the entries, of every repository and tier, whose expiry is earlier than
\* the current time, so that right after the call no such entry is left,
\* and getCacheStats reports the number of entries that are left; a store
\* removes nothing and changes only the entry of its own key.
C28_LazySweep == [][C28_SweepStep /\ C28_StoreStep]_vars

\* C28 witness: getCacheStats has removed expired entries of two tiers and
\* reports the entries left, of which there are some
C28_Witness ==
    /\ returned.op = "getCacheStats"
    /\ Cardinality(returned.evicted) >= 2
    /\ returned.keys = Cardinality(DOMAIN cache)
    /\ returned.keys >= 1
    /\ Expired(cache, now) = {}


(***************************************************************************)
(* enhancedFileSelection: the top files lead the selection                 *)
(***************************************************************************)
\* the ranked list of the question and the tree given
RankedOf(question, fileTree) ==
    selectFilesWithScoring(question, fileTree, classifyQuestion(question))

\* the first path of the tree that ends with the name of an important file
IsImportantOf(path, fileTree) ==
    \E n \in 1..Len(ImportantFiles) :
        /\ EndsWith(path, ImportantFiles[n])
        /\ \A j \in 1..Len(fileTree) :
              (fileTree[j] = path /\ \A i \in 1..(j - 1) : fileTree[i] # path)
                  => \A i \in 1..(j - 1) :
                         ~EndsWith(fileTree[i], ImportantFiles[n])

\* the selection before the cap: the expansion and the important files
Uncapped(question, fileTree) ==
    WithImportantFiles(
        expandWithNeighbors(TopFiles(RankedOf(question, fileTree)), fileTree),
        ImportantFiles, fileTree)

\* C30: the selection enhancedFileSelection returns begins with the top
\* files (the paths of score 10 or more among the first 20 of the ranked
\* list that pass the threshold), all of them and in ranked order; every
\* entry after them is a neighbour the expansion added or an important
\* file, and only there can a path of score below 10 be; every entry is a
\* path of the tree; and the cap of 30 cuts entries after the top files
\* only.
C30_TopFilesLead ==
    applied = "enhancedFileSelection" =>
        LET ranked == RankedOf(selQuestion, selTree)
            top == TopFiles(ranked)
            expanded == expandWithNeighbors(top, selTree)
        IN  /\ Len(top) <= MaxTopFiles
            /\ Len(top) <= Len(selected)
            /\ SubSeq(selected, 1, Len(top)) = top
            /\ \A i \in 1..Len(top) :
                  \E r \in 1..Len(ranked) :
                      ranked[r].path = top[i] /\ ranked[r].score >= MinScore
            /\ \A i \in (Len(top) + 1)..Len(selected) :
                  /\ ~InSeq(selected[i], top)
                  /\ \/ InSeq(selected[i], expanded)
                     \/ IsImportantOf(selected[i], selTree)
            /\ \A i \in 1..Len(selected) : InSeq(selected[i], selTree)
            /\ selected = Take(Uncapped(selQuestion, selTree), MaxSelection)

\* C30 witness: enhancedFileSelection returned 30 paths, 20 top files at
\* the head and neighbours after them, the cap having cut the selection
C30_Witness ==
    /\ applied = "enhancedFileSelection"
    /\ Len(TopFiles(RankedOf(selQuestion, selTree))) = MaxTopFiles
    /\ Len(selected) = MaxSelection
    /\ Len(Uncapped(selQuestion, selTree)) > MaxSelection

\* a path of score below 10 is in the selection, after the top files
C30_LowScoreEntered ==
    /\ applied = "enhancedFileSelection"
    /\ TopFiles(RankedOf(selQuestion, selTree)) # <<>>
    /\ \E i \in 1..Len(selected) :
          FileScore(selQuestion, selected[i],
                    classifyQuestion(selQuestion)) < MinScore

=============================================================================
